---- MODULE Spec2Model ----
(***************************************************************************)
(* BlinkTalk core: the CalibrationManager (py/core/calibration.py) and the *)
(* calibration-backed BlinkClassifier (py/core/blink_classifier.py).       *)
(*                                                                         *)
(* Timestamps are seconds in the code; here a timestamp is a whole number  *)
(* of ticks of TickMs milliseconds, and DurationMs is the code's           *)
(* (t1 - t0) * 1000.  EAR values are hundredths (0.25 is 25).              *)
(* Optional values are <<>> (None) or <<x>>.                               *)
(***************************************************************************)
EXTENDS Integers, Sequences, FiniteSets, TLC

VARIABLES
    active_profile,      \* CalibrationManager._active_profile
    custom_profile,      \* CalibrationManager._custom_profile (Optional)
    current_thresholds,  \* CalibrationManager._current_thresholds
    state,               \* BlinkClassifier.state (BlinkState)
    events,              \* BlinkClassifier.events
    gap_events,          \* BlinkClassifier.gap_events
    now,                 \* timestamp of the latest sample fed (caller's clock)
    run_start,           \* timestamp of the first sample of the session's
                         \* current below-threshold run (Optional)
    gap_fired,           \* a gap event was emitted since the last BlinkEvent
    run_profile,         \* the profile that was active at the first sample of
                         \* the latest below-threshold run (Optional)
    idle_run,            \* every sample since the last BlinkEvent found the
                         \* eye open and the classifier Idle, and came less
                         \* than word_gap_min_ms - symbol_gap_max_ms after the
                         \* sample before it
    vocab,               \* SequenceEngine.vocab: pattern -> word, in dict order
    current_sequence,    \* SequenceEngine.current_sequence
    last_word,           \* SequenceEngine.last_word
    sequence_complete,   \* SequenceEngine.sequence_complete
    th,                  \* per thread: the call it is in and where in it
    lock,                \* CalibrationManager._lock (an RLock): owner, depth
    _calibration_manager, \* the module global: None or the instance's number
    _calibration_lock,   \* the module's Lock: None or the holding thread
    instances,           \* CalibrationManager instances constructed so far
    resets,              \* reset_calibration_manager() assignments so far
    held,                \* the object a caller got from a read operation
    _frame,              \* LatestFrameBuffer._frame (Optional)
    _meta,               \* LatestFrameBuffer._meta
    _version,            \* LatestFrameBuffer._version
    frame_classifier,    \* _blink_classifier of api/routers/frame.py:
                         \* [state, events, gap_events]
    frame_engine,        \* _sequence_engine of api/routers/frame.py
    last                 \* the last call: [op, arg, ret]

vars == <<active_profile, custom_profile, current_thresholds, state, events,
          gap_events, now, run_start, gap_fired, run_profile, idle_run, vocab,
          current_sequence, last_word, sequence_complete, th, lock,
          _calibration_manager, _calibration_lock, instances, resets, held,
          _frame, _meta, _version, frame_classifier, frame_engine, last>>

calVars == <<active_profile, custom_profile, current_thresholds>>
clfVars == <<state, events, gap_events>>
envVars == <<now, run_start, gap_fired, run_profile, idle_run>>
seqVars == <<vocab, current_sequence, last_word, sequence_complete>>
thrVars == <<th, lock>>
sglVars == <<_calibration_manager, _calibration_lock, instances, resets>>
bufVars == <<_frame, _meta, _version>>
frmVars == <<frame_classifier, frame_engine>>
conVars == <<thrVars, sglVars, held, bufVars, frmVars>>

None == <<>>
Some(x) == <<x>>

-----------------------------------------------------------------------------
(* Bounds of the model *)

TickMs == 200       \* a tick of the sample clock, in milliseconds
MaxTime == 8        \* the latest timestamp fed, in ticks
MaxEvents == 2      \* blink events held
MaxGaps == 2        \* gap events held
MaxSwitchEvents == 2 \* blink and gap events held while profiles are switched
MaxResets == 1      \* calls of reset_calibration_manager
MaxVersion == 3     \* versions a frame buffer goes through
MaxServeTime == 9   \* ticks of a served sample stream

-----------------------------------------------------------------------------
(* CalibrationManager *)

ThresholdKeys ==
    {"short_max_ms", "long_min_ms", "long_max_ms", "symbol_gap_max_ms",
     "word_gap_min_ms"}

CalibrationProfile(name, short_max_ms, long_min_ms, long_max_ms, symbol_gap_max_ms, word_gap_min_ms, description, is_custom) ==
    [name |-> name, short_max_ms |-> short_max_ms, long_min_ms |-> long_min_ms,
     long_max_ms |-> long_max_ms, symbol_gap_max_ms |-> symbol_gap_max_ms,
     word_gap_min_ms |-> word_gap_min_ms, description |-> description,
     is_custom |-> is_custom]

CALIBRATION_PROFILES ==
    [slow |-> CalibrationProfile("slow", 500, 501, 1200, 600, 1500,
                  "For users with slower blink patterns", FALSE),
     medium |-> CalibrationProfile("medium", 350, 351, 900, 450, 1100,
                  "Standard timing for typical users", FALSE)]

\* The dict both threshold getters build from a profile's five fields.
ThresholdsOf(profile) ==
    [short_max_ms |-> profile.short_max_ms,
     long_min_ms |-> profile.long_min_ms,
     long_max_ms |-> profile.long_max_ms,
     symbol_gap_max_ms |-> profile.symbol_gap_max_ms,
     word_gap_min_ms |-> profile.word_gap_min_ms]

_get_profile_thresholds(profile_name) ==
    ThresholdsOf(CALIBRATION_PROFILES[profile_name])

Mut_get_custom_thresholds(custom) ==
    [short_max_ms |-> custom[1].short_max_ms,
     long_min_ms |-> custom[1].long_min_ms,
     long_max_ms |-> custom[1].long_max_ms,
     symbol_gap_max_ms |-> custom[1].word_gap_min_ms,
     word_gap_min_ms |-> custom[1].symbol_gap_max_ms]

\* Called only with a custom profile present (the callers test for None first).
_get_custom_thresholds(custom) ==
    ThresholdsOf(custom[1])

Mut_validate_custom_thresholds(short_max_ms, long_min_ms, long_max_ms, symbol_gap_max_ms, word_gap_min_ms) ==
    /\ 100 <= short_max_ms /\ short_max_ms <= 2000
    /\ 200 <= long_min_ms /\ long_min_ms <= 3000
    /\ 500 <= long_max_ms /\ long_max_ms <= 5000
    /\ 200 <= symbol_gap_max_ms /\ symbol_gap_max_ms <= 2000
    /\ 500 <= word_gap_min_ms /\ word_gap_min_ms <= 5000
    /\ ~(short_max_ms >= long_min_ms)
    /\ ~(long_min_ms > long_max_ms)
    /\ ~(symbol_gap_max_ms >= word_gap_min_ms)

Mut2_validate_custom_thresholds(short_max_ms, long_min_ms, long_max_ms, symbol_gap_max_ms, word_gap_min_ms) ==
    /\ 100 <= short_max_ms /\ short_max_ms <= 2000
    /\ 200 <= long_min_ms /\ long_min_ms <= 3000
    /\ 500 <= long_max_ms /\ long_max_ms <= 5000
    /\ 200 <= symbol_gap_max_ms /\ symbol_gap_max_ms <= 2000
    /\ 500 <= word_gap_min_ms /\ word_gap_min_ms <= 5000
    /\ ~(short_max_ms >= long_min_ms)
    /\ ~(long_min_ms >= long_max_ms)

_validate_custom_thresholds(short_max_ms, long_min_ms, long_max_ms, symbol_gap_max_ms, word_gap_min_ms) ==
    /\ 100 <= short_max_ms /\ short_max_ms <= 2000
    /\ 200 <= long_min_ms /\ long_min_ms <= 3000
    /\ 500 <= long_max_ms /\ long_max_ms <= 5000
    /\ 200 <= symbol_gap_max_ms /\ symbol_gap_max_ms <= 2000
    /\ 500 <= word_gap_min_ms /\ word_gap_min_ms <= 5000
    /\ ~(short_max_ms >= long_min_ms)
    /\ ~(long_min_ms >= long_max_ms)
    /\ ~(symbol_gap_max_ms >= word_gap_min_ms)

\* A manager value: the three fields the lock protects.
Manager(active, custom, current) ==
    [active |-> active, custom |-> custom, current |-> current]

TheManager == Manager(active_profile, custom_profile, current_thresholds)

\* __init__(default_profile)
CalibrationManagerInit(default_profile) ==
    LET active == IF default_profile \in DOMAIN CALIBRATION_PROFILES
                  THEN default_profile ELSE "medium"
    IN  Manager(active, None, _get_profile_thresholds(active))

Mut_set_profile(m, profile_name) ==
    IF profile_name = "custom"
    THEN IF m.custom = None
         THEN [m |-> m, ret |-> FALSE]
         ELSE [m |-> Manager("custom", m.custom, _get_custom_thresholds(m.custom)),
               ret |-> TRUE]
    ELSE IF profile_name \notin DOMAIN CALIBRATION_PROFILES
         THEN [m |-> m, ret |-> FALSE]
         ELSE [m |-> Manager(profile_name, m.custom, m.current),
               ret |-> TRUE]

\* set_profile: the new manager value and the returned bool.
set_profile(m, profile_name) ==
    IF profile_name = "custom"
    THEN IF m.custom = None
         THEN [m |-> m, ret |-> FALSE]
         ELSE [m |-> Manager("custom", m.custom, _get_custom_thresholds(m.custom)),
               ret |-> TRUE]
    ELSE IF profile_name \notin DOMAIN CALIBRATION_PROFILES
         THEN [m |-> m, ret |-> FALSE]
         ELSE [m |-> Manager(profile_name, m.custom,
                             _get_profile_thresholds(profile_name)),
               ret |-> TRUE]

Mut_set_custom_profile(m, v) ==
    LET custom == Some(CalibrationProfile("custom", v.short_max_ms, v.long_min_ms,
                           v.long_max_ms, v.symbol_gap_max_ms, v.word_gap_min_ms,
                           "Custom calibration profile", TRUE))
    IN  IF ~_validate_custom_thresholds(v.short_max_ms, v.long_min_ms,
                v.long_max_ms, v.symbol_gap_max_ms, v.word_gap_min_ms)
        THEN [m |-> Manager(m.active, custom, m.current), ret |-> FALSE]
        ELSE [m |-> Manager(m.active, custom,
                            IF m.active = "custom"
                            THEN _get_custom_thresholds(custom) ELSE m.current),
              ret |-> TRUE]

\* A variant that stores the profile and leaves the current thresholds.
Mut2_set_custom_profile(m, v) ==
    IF ~_validate_custom_thresholds(v.short_max_ms, v.long_min_ms,
            v.long_max_ms, v.symbol_gap_max_ms, v.word_gap_min_ms)
    THEN [m |-> m, ret |-> FALSE]
    ELSE LET custom == Some(CalibrationProfile("custom", v.short_max_ms,
                                v.long_min_ms, v.long_max_ms, v.symbol_gap_max_ms,
                                v.word_gap_min_ms, "Custom calibration profile",
                                TRUE))
         IN  [m |-> Manager(m.active, custom, m.current), ret |-> TRUE]

\* set_custom_profile; v carries the five keyword arguments.
set_custom_profile(m, v) ==
    IF ~_validate_custom_thresholds(v.short_max_ms, v.long_min_ms,
            v.long_max_ms, v.symbol_gap_max_ms, v.word_gap_min_ms)
    THEN [m |-> m, ret |-> FALSE]
    ELSE LET custom == Some(CalibrationProfile("custom", v.short_max_ms,
                                v.long_min_ms, v.long_max_ms, v.symbol_gap_max_ms,
                                v.word_gap_min_ms, "Custom calibration profile",
                                TRUE))
         IN  [m |-> Manager(m.active, custom,
                            IF m.active = "custom"
                            THEN _get_custom_thresholds(custom) ELSE m.current),
              ret |-> TRUE]

Mut_clear_custom_profile(m) ==
    Manager(m.active, None, m.current)

clear_custom_profile(m) ==
    LET cleared == Manager(m.active, None, m.current)
    IN  IF m.active = "custom" THEN set_profile(cleared, "medium").m ELSE cleared

reset_to_default(m) == set_profile(m, "medium").m

get_active_profile == active_profile

\* is_valid_profile: a membership test on the name alone.
is_valid_profile(profile_name) ==
    profile_name \in DOMAIN CALIBRATION_PROFILES \/ profile_name = "custom"

\* POST /api/calibration/set: the manager after the request and the HTTP
\* status of the response.
set_calibration_profile(m, profile) ==
    IF ~is_valid_profile(profile) THEN [m |-> m, status |-> 400]
    ELSE LET r == set_profile(m, profile)
         IN  IF ~r.ret THEN [m |-> r.m, status |-> 500]
             ELSE [m |-> r.m, status |-> 200]

\* get_thresholds returns a copy of the current dict: the value itself.
get_thresholds == current_thresholds

get_profile_info(profile_name) ==
    LET name == IF profile_name = None THEN active_profile ELSE profile_name[1]
        info(profile) ==
            Some([name |-> profile.name, description |-> profile.description,
                  thresholds |-> ThresholdsOf(profile),
                  is_custom |-> profile.is_custom])
    IN  IF name = "custom"
        THEN IF custom_profile = None THEN None ELSE info(custom_profile[1])
        ELSE IF name \notin DOMAIN CALIBRATION_PROFILES THEN None
        ELSE info(CALIBRATION_PROFILES[name])

\* get_available_profiles: name -> description.
get_available_profiles ==
    LET names == DOMAIN CALIBRATION_PROFILES
                 \cup (IF custom_profile = None THEN {} ELSE {"custom"})
    IN  [n \in names |-> IF n = "custom" THEN custom_profile[1].description
                         ELSE CALIBRATION_PROFILES[n].description]

\* get_stats: the list of names follows the order of CALIBRATION_PROFILES.
get_stats ==
    [active_profile |-> active_profile,
     available_profiles |-> <<"slow", "medium">>
                            \o (IF custom_profile = None THEN <<>> ELSE <<"custom">>),
     current_thresholds |-> current_thresholds,
     has_custom_profile |-> custom_profile # None]

-----------------------------------------------------------------------------
(* What a read operation hands to its caller: an object of the caller's own
   (a dict built in the call, or a .copy()), or the very object a field of
   the manager refers to; ref names that field *)

Owned(kind, value) == [kind |-> kind, value |-> value, ref |-> ""]
Shared(kind, value, ref) == [kind |-> kind, value |-> value, ref |-> ref]

\* A variant of get_thresholds that returns self._current_thresholds itself.
Mut_ReturnedThresholds ==
    Shared("thresholds", current_thresholds, "current_thresholds")

\* get_thresholds, line 124: self._current_thresholds.copy().
ReturnedThresholds == Owned("thresholds", get_thresholds)

\* get_custom_profile, line 335: self._custom_profile, the stored object.
ReturnedCustomProfile ==
    Shared("custom_profile", custom_profile[1], "custom_profile")

\* An assignment to the manager's fields binds them to new objects: an object
\* handed out earlier is no longer the one the field refers to.
Rebound(fields) ==
    IF held # None /\ held[1].ref \in fields
    THEN Some([held[1] EXCEPT !.ref = ""])
    ELSE held

-----------------------------------------------------------------------------
(* Inputs of the calibration calls *)

ProfileNames == {"slow", "medium", "custom", "fast", ""}

Vec(a, b, c, d, e) ==
    [short_max_ms |-> a, long_min_ms |-> b, long_max_ms |-> c,
     symbol_gap_max_ms |-> d, word_gap_min_ms |-> e]

\* Every field at its lowest, at its highest accepted value, and the vector of
\* test_set_custom_profile_valid.
BaseVecs ==
    {Vec(100, 200, 500, 200, 500), Vec(2000, 3000, 5000, 2000, 5000),
     Vec(400, 401, 1000, 500, 1200)}

\* A base vector with one field moved by at most one.
NearVecs ==
    {[b EXCEPT ![k] = @ + d] : b \in BaseVecs, k \in ThresholdKeys, d \in {-1, 0, 1}}

\* Every field in its range, one ordering rule broken (equal, then reversed).
OrderVecs ==
    {Vec(200, 200, 500, 200, 500), Vec(300, 200, 500, 200, 500),
     Vec(100, 500, 500, 200, 500), Vec(100, 600, 500, 200, 500),
     Vec(100, 200, 500, 500, 500), Vec(100, 200, 500, 600, 500)}

CustomVecs == NearVecs \cup OrderVecs

-----------------------------------------------------------------------------
(* BlinkClassifier, constructed without fixed thresholds (use_calibration) *)

ear_threshold == 25

\* A closed eye, and the threshold itself (the lowest EAR that counts as open).
EarVals == {10, 25}

BlinkEvent(blink_type, timestamp, duration_ms, ear_value) ==
    [blink_type |-> blink_type, timestamp |-> timestamp,
     duration_ms |-> duration_ms, ear_value |-> ear_value]

GapEvent(gap_type, timestamp, duration_ms) ==
    [gap_type |-> gap_type, timestamp |-> timestamp, duration_ms |-> duration_ms]

BlinkState ==
    [is_blinking |-> FALSE, blink_start_time |-> None, blink_start_ear |-> None,
     last_blink_time |-> None, last_event_time |-> None]

\* (t1 - t0) * 1000 for timestamps in seconds; t1, t0 are in ticks.
DurationMs(t1, t0) == (t1 - t0) * TickMs

\* A variant that stays with the thresholds of the default profile.
Mut_get_thresholds == _get_profile_thresholds("medium")

\* BlinkClassifier._get_thresholds on a calibration-backed classifier.
_get_thresholds == get_thresholds

MutClassifyBlink(duration_ms, thresholds) ==
    IF duration_ms < thresholds.short_max_ms THEN "S"
    ELSE IF thresholds.long_min_ms < duration_ms
            /\ duration_ms <= thresholds.long_max_ms THEN "L"
    ELSE "noise"

\* The if/elif/else on duration_ms: "S", "L" or "noise" (the early return).
ClassifyBlink(duration_ms, thresholds) ==
    IF duration_ms <= thresholds.short_max_ms THEN "S"
    ELSE IF thresholds.long_min_ms <= duration_ms
            /\ duration_ms <= thresholds.long_max_ms THEN "L"
    ELSE "noise"

MutClassifyGap(gap_duration_ms, thresholds) ==
    IF gap_duration_ms > thresholds.word_gap_min_ms THEN "word_gap"
    ELSE IF gap_duration_ms > thresholds.symbol_gap_max_ms
            /\ gap_duration_ms < thresholds.word_gap_min_ms THEN "symbol_gap"
    ELSE "none"

\* The if/elif on gap_duration_ms: word gap first.
ClassifyGap(gap_duration_ms, thresholds) ==
    IF gap_duration_ms >= thresholds.word_gap_min_ms THEN "word_gap"
    ELSE IF gap_duration_ms >= thresholds.symbol_gap_max_ms
            /\ gap_duration_ms < thresholds.word_gap_min_ms THEN "symbol_gap"
    ELSE "none"

\* A variant that tests only that an event has been seen.
Mut_GapWindowOpen(st, gaps) ==
    /\ ~st.is_blinking
    /\ st.last_event_time # None

\* The guard of the gap check.
GapWindowOpen(st, gaps) ==
    /\ ~st.is_blinking
    /\ st.last_event_time # None
    /\ (gaps = <<>> \/ gaps[Len(gaps)].timestamp < st.last_event_time[1])

\* A variant that returns the whole event history instead of new_events.
MutGapCheck(st, evs, gaps, new_events, timestamp, thresholds) ==
    LET gap_duration_ms == DurationMs(timestamp, st.last_event_time[1])
        gap_type == ClassifyGap(gap_duration_ms, thresholds)
    IN  IF GapWindowOpen(st, gaps) /\ gap_type # "none"
        THEN [state |-> [st EXCEPT !.last_event_time = Some(timestamp)],
              events |-> evs,
              gap_events |-> Append(gaps, GapEvent(gap_type, timestamp,
                                                   gap_duration_ms)),
              new_events |-> evs]
        ELSE [state |-> st, events |-> evs, gap_events |-> gaps,
              new_events |-> evs]

\* The gap check that ends process_ear_sample.
GapCheck(st, evs, gaps, new_events, timestamp, thresholds) ==
    LET gap_duration_ms == DurationMs(timestamp, st.last_event_time[1])
        gap_type == ClassifyGap(gap_duration_ms, thresholds)
    IN  IF GapWindowOpen(st, gaps) /\ gap_type # "none"
        THEN [state |-> [st EXCEPT !.last_event_time = Some(timestamp)],
              events |-> evs,
              gap_events |-> Append(gaps, GapEvent(gap_type, timestamp,
                                                   gap_duration_ms)),
              new_events |-> new_events]
        ELSE [state |-> st, events |-> evs, gap_events |-> gaps,
              new_events |-> new_events]

\* A variant whose comparisons with ear_threshold count an equal ear as closed.
Mut_process_ear_sample(st, evs, gaps, ear_value, timestamp) ==
    LET thresholds == _get_thresholds
    IN  IF ~st.is_blinking /\ ear_value <= ear_threshold
        THEN GapCheck([st EXCEPT !.is_blinking = TRUE,
                                 !.blink_start_time = Some(timestamp),
                                 !.blink_start_ear = Some(ear_value)],
                      evs, gaps, <<>>, timestamp, thresholds)
        ELSE IF st.is_blinking /\ ear_value > ear_threshold
                /\ st.blink_start_time # None
        THEN LET duration_ms == DurationMs(timestamp, st.blink_start_time[1])
                 blink_type == ClassifyBlink(duration_ms, thresholds)
                 event == BlinkEvent(blink_type, timestamp, duration_ms, ear_value)
             IN  IF blink_type = "noise"
                 THEN \* early return: the gap check is not reached
                      [state |-> [st EXCEPT !.is_blinking = FALSE,
                                            !.blink_start_time = None,
                                            !.blink_start_ear = None],
                       events |-> evs, gap_events |-> gaps, new_events |-> <<>>]
                 ELSE GapCheck([st EXCEPT !.last_blink_time = Some(timestamp),
                                          !.last_event_time = Some(timestamp),
                                          !.is_blinking = FALSE,
                                          !.blink_start_time = None,
                                          !.blink_start_ear = None],
                               Append(evs, event), gaps, <<event>>, timestamp,
                               thresholds)
        ELSE GapCheck(st, evs, gaps, <<>>, timestamp, thresholds)

\* A variant whose noise branch records the rejected blink's end as
\* last_event_time.
Mut2_process_ear_sample(st, evs, gaps, ear_value, timestamp) ==
    LET thresholds == _get_thresholds
    IN  IF ~st.is_blinking /\ ear_value < ear_threshold
        THEN GapCheck([st EXCEPT !.is_blinking = TRUE,
                                 !.blink_start_time = Some(timestamp),
                                 !.blink_start_ear = Some(ear_value)],
                      evs, gaps, <<>>, timestamp, thresholds)
        ELSE IF st.is_blinking /\ ear_value >= ear_threshold
                /\ st.blink_start_time # None
        THEN LET duration_ms == DurationMs(timestamp, st.blink_start_time[1])
                 blink_type == ClassifyBlink(duration_ms, thresholds)
                 event == BlinkEvent(blink_type, timestamp, duration_ms, ear_value)
             IN  IF blink_type = "noise"
                 THEN \* early return: the gap check is not reached
                      [state |-> [st EXCEPT !.is_blinking = FALSE,
                                            !.last_event_time = Some(timestamp),
                                            !.blink_start_time = None,
                                            !.blink_start_ear = None],
                       events |-> evs, gap_events |-> gaps, new_events |-> <<>>]
                 ELSE GapCheck([st EXCEPT !.last_blink_time = Some(timestamp),
                                          !.last_event_time = Some(timestamp),
                                          !.is_blinking = FALSE,
                                          !.blink_start_time = None,
                                          !.blink_start_ear = None],
                               Append(evs, event), gaps, <<event>>, timestamp,
                               thresholds)
        ELSE GapCheck(st, evs, gaps, <<>>, timestamp, thresholds)

\* process_ear_sample: the classifier after the call and the returned list.
process_ear_sample(st, evs, gaps, ear_value, timestamp) ==
    LET thresholds == _get_thresholds
    IN  IF ~st.is_blinking /\ ear_value < ear_threshold
        THEN GapCheck([st EXCEPT !.is_blinking = TRUE,
                                 !.blink_start_time = Some(timestamp),
                                 !.blink_start_ear = Some(ear_value)],
                      evs, gaps, <<>>, timestamp, thresholds)
        ELSE IF st.is_blinking /\ ear_value >= ear_threshold
                /\ st.blink_start_time # None
        THEN LET duration_ms == DurationMs(timestamp, st.blink_start_time[1])
                 blink_type == ClassifyBlink(duration_ms, thresholds)
                 event == BlinkEvent(blink_type, timestamp, duration_ms, ear_value)
             IN  IF blink_type = "noise"
                 THEN \* early return: the gap check is not reached
                      [state |-> [st EXCEPT !.is_blinking = FALSE,
                                            !.blink_start_time = None,
                                            !.blink_start_ear = None],
                       events |-> evs, gap_events |-> gaps, new_events |-> <<>>]
                 ELSE GapCheck([st EXCEPT !.last_blink_time = Some(timestamp),
                                          !.last_event_time = Some(timestamp),
                                          !.is_blinking = FALSE,
                                          !.blink_start_time = None,
                                          !.blink_start_ear = None],
                               Append(evs, event), gaps, <<event>>, timestamp,
                               thresholds)
        ELSE GapCheck(st, evs, gaps, <<>>, timestamp, thresholds)

get_recent_gaps(max_events) ==
    IF gap_events = <<>> THEN <<>>
    ELSE SubSeq(gap_events,
                IF Len(gap_events) > max_events
                THEN Len(gap_events) - max_events + 1 ELSE 1,
                Len(gap_events))

\* The scan of get_current_sequence for the last word gap: gaps[1..i] from
\* the back.
RECURSIVE last_word_gap_time(_, _)
last_word_gap_time(gaps, i) ==
    IF i = 0 THEN None
    ELSE IF gaps[i].gap_type = "word_gap" THEN Some(gaps[i].timestamp)
    ELSE last_word_gap_time(gaps, i - 1)

\* A variant that stops at the last gap of any type.
Mut_get_current_sequence(evs, gaps) ==
    LET cut == IF gaps = <<>> THEN None ELSE Some(gaps[Len(gaps)].timestamp)
        RECURSIVE collect(_)
        collect(i) ==
            IF i > Len(evs) THEN <<>>
            ELSE IF cut = None \/ evs[i].timestamp > cut[1]
            THEN <<evs[i].blink_type>> \o collect(i + 1)
            ELSE collect(i + 1)
    IN  collect(1)

\* get_current_sequence: the blink types since the last word gap.
get_current_sequence(evs, gaps) ==
    LET cut == last_word_gap_time(gaps, Len(gaps))
        RECURSIVE collect(_)
        collect(i) ==
            IF i > Len(evs) THEN <<>>
            ELSE IF cut = None \/ evs[i].timestamp > cut[1]
            THEN <<evs[i].blink_type>> \o collect(i + 1)
            ELSE collect(i + 1)
    IN  collect(1)

-----------------------------------------------------------------------------
(* SequenceEngine (core/sequence_engine.py) *)

\* A Python string is modelled as the sequence of its characters; the symbols
\* "S" and "L" are one character each.
max_sequence_length == 4

\* " ".join(seq) for a list of one-character symbols.
RECURSIVE join(_)
join(seq) ==
    IF seq = <<>> THEN <<>>
    ELSE IF Len(seq) = 1 THEN <<seq[1]>>
    ELSE <<seq[1], " ">> \o join(Tail(seq))

\* The length of the leading run of non-space characters of str.
RECURSIVE TokenLen(_)
TokenLen(str) ==
    IF str = <<>> \/ str[1] = " " THEN 0 ELSE 1 + TokenLen(Tail(str))

\* str.split(): the maximal runs of non-space characters, each a string.
RECURSIVE split(_)
split(str) ==
    IF str = <<>> THEN <<>>
    ELSE IF str[1] = " " THEN split(Tail(str))
    ELSE LET n == TokenLen(str)
         IN  <<SubSeq(str, 1, n)>> \o split(SubSeq(str, n + 1, Len(str)))

\* One vocabulary item as the loader stores it: pattern string -> word.
VocabEntry(symbols, word) == [pattern |-> join(symbols), word |-> word]

\* The engine as one value.
Engine(v, seq, word, complete) ==
    [vocab |-> v, current_sequence |-> seq, last_word |-> word,
     sequence_complete |-> complete]

TheEngine == Engine(vocab, current_sequence, last_word, sequence_complete)

\* SequenceEngine.__init__ on a loaded vocabulary.
SequenceEngineInit(v) == Engine(v, <<>>, "", FALSE)

\* _is_subsequence: the two-pointer scan from positions i, j.
RECURSIVE SubsequenceScan(_, _, _, _)
SubsequenceScan(shorter, longer, i, j) ==
    IF i <= Len(shorter) /\ j <= Len(longer)
    THEN SubsequenceScan(shorter, longer,
                         IF shorter[i] = longer[j] THEN i + 1 ELSE i, j + 1)
    ELSE i = Len(shorter) + 1

_is_subsequence(shorter, longer) == SubsequenceScan(shorter, longer, 1, 1)

_is_prefix_match(shorter, longer) ==
    IF Len(shorter) >= Len(longer) THEN FALSE
    ELSE \A i \in 1..Len(shorter) : shorter[i] = longer[i]

Abs(n) == IF n < 0 THEN -n ELSE n

\* A variant whose insertion case asks for a subsequence only.
Mut_fuzzy_match_entry(pattern, vocab_pattern) ==
    LET pattern_parts == split(pattern)
        vocab_parts == split(vocab_pattern)
        differences == Cardinality({i \in 1..Len(pattern_parts) :
                                      pattern_parts[i] # vocab_parts[i]})
    IN  IF Abs(Len(pattern_parts) - Len(vocab_parts)) > 1 THEN FALSE
        ELSE IF pattern = vocab_pattern THEN TRUE
        ELSE IF Len(pattern_parts) = Len(vocab_parts)
        THEN differences = 1 /\ Len(pattern_parts) > 1
        ELSE /\ Len(pattern_parts) > Len(vocab_parts)
             /\ _is_subsequence(vocab_parts, pattern_parts)

\* The body of _fuzzy_match's loop for one vocabulary item: TRUE when it
\* returns the item's word, FALSE when the loop goes on.
_fuzzy_match_entry(pattern, vocab_pattern) ==
    LET pattern_parts == split(pattern)
        vocab_parts == split(vocab_pattern)
        differences == Cardinality({i \in 1..Len(pattern_parts) :
                                      pattern_parts[i] # vocab_parts[i]})
    IN  IF Abs(Len(pattern_parts) - Len(vocab_parts)) > 1 THEN FALSE
        ELSE IF pattern = vocab_pattern THEN TRUE
        ELSE IF Len(pattern_parts) = Len(vocab_parts)
        THEN differences = 1 /\ Len(pattern_parts) > 1
        ELSE /\ Len(pattern_parts) > Len(vocab_parts)
             /\ _is_subsequence(vocab_parts, pattern_parts)
             /\ _is_prefix_match(vocab_parts, pattern_parts)

\* A variant that keeps the last matching item instead of the first.
Mut_fuzzy_match(v, pattern) ==
    LET hits == {i \in DOMAIN v : _fuzzy_match_entry(pattern, v[i].pattern)}
    IN  IF hits = {} THEN None
        ELSE Some(v[CHOOSE i \in hits : \A k \in hits : k <= i].word)

\* _fuzzy_match: the word of the first item, in dict order, that matches.
_fuzzy_match(v, pattern) ==
    LET hits == {i \in DOMAIN v : _fuzzy_match_entry(pattern, v[i].pattern)}
    IN  IF hits = {} THEN None
        ELSE Some(v[CHOOSE i \in hits : \A k \in hits : i <= k].word)

\* A variant without the exact lookup.
Mut_finalize_sequence(e) ==
    IF e.current_sequence = <<>> THEN [e |-> e, ret |-> None]
    ELSE LET pattern == join(e.current_sequence)
             word == _fuzzy_match(e.vocab, pattern)
         IN  IF word # None /\ word[1] # ""
             THEN [e |-> [e EXCEPT !.last_word = word[1],
                                   !.sequence_complete = TRUE],
                   ret |-> word]
             ELSE [e |-> e, ret |-> None]

\* A variant that forgets last_word when nothing matches.
Mut2_finalize_sequence(e) ==
    IF e.current_sequence = <<>> THEN [e |-> e, ret |-> None]
    ELSE LET pattern == join(e.current_sequence)
             exact == {i \in DOMAIN e.vocab : e.vocab[i].pattern = pattern}
             word == IF exact # {} THEN Some(e.vocab[CHOOSE i \in exact : TRUE].word)
                     ELSE _fuzzy_match(e.vocab, pattern)
         IN  IF exact # {} \/ (word # None /\ word[1] # "")
             THEN [e |-> [e EXCEPT !.last_word = word[1],
                                   !.sequence_complete = TRUE],
                   ret |-> word]
             ELSE [e |-> [e EXCEPT !.last_word = ""], ret |-> None]

\* A variant that refuses a sequence that is already complete.
Mut3_finalize_sequence(e) ==
    IF e.current_sequence = <<>> \/ e.sequence_complete
    THEN [e |-> e, ret |-> None]
    ELSE LET pattern == join(e.current_sequence)
             exact == {i \in DOMAIN e.vocab : e.vocab[i].pattern = pattern}
             word == IF exact # {} THEN Some(e.vocab[CHOOSE i \in exact : TRUE].word)
                     ELSE _fuzzy_match(e.vocab, pattern)
         IN  IF exact # {} \/ (word # None /\ word[1] # "")
             THEN [e |-> [e EXCEPT !.last_word = word[1],
                                   !.sequence_complete = TRUE],
                   ret |-> word]
             ELSE [e |-> e, ret |-> None]

\* A variant that marks the sequence complete whether or not a word was found.
Mut4_finalize_sequence(e) ==
    IF e.current_sequence = <<>> THEN [e |-> e, ret |-> None]
    ELSE LET pattern == join(e.current_sequence)
             exact == {i \in DOMAIN e.vocab : e.vocab[i].pattern = pattern}
             word == IF exact # {} THEN Some(e.vocab[CHOOSE i \in exact : TRUE].word)
                     ELSE _fuzzy_match(e.vocab, pattern)
         IN  IF exact # {} \/ (word # None /\ word[1] # "")
             THEN [e |-> [e EXCEPT !.last_word = word[1],
                                   !.sequence_complete = TRUE],
                   ret |-> word]
             ELSE [e |-> [e EXCEPT !.sequence_complete = TRUE], ret |-> None]

\* finalize_sequence: the engine after the call and the returned word.
finalize_sequence(e) ==
    IF e.current_sequence = <<>> THEN [e |-> e, ret |-> None]
    ELSE LET pattern == join(e.current_sequence)
             exact == {i \in DOMAIN e.vocab : e.vocab[i].pattern = pattern}
             word == IF exact # {} THEN Some(e.vocab[CHOOSE i \in exact : TRUE].word)
                     ELSE _fuzzy_match(e.vocab, pattern)
         IN  IF exact # {} \/ (word # None /\ word[1] # "")
             THEN [e |-> [e EXCEPT !.last_word = word[1],
                                   !.sequence_complete = TRUE],
                   ret |-> word]
             ELSE [e |-> e, ret |-> None]

\* A variant without the sequence_complete guard.
Mut_add_blink(e, blink_type) ==
    IF blink_type \notin {"S", "L"} THEN e
    ELSE IF Len(e.current_sequence) >= max_sequence_length
    THEN finalize_sequence(e).e
    ELSE LET appended == [e EXCEPT !.current_sequence = Append(@, blink_type)]
         IN  IF Len(appended.current_sequence) >= max_sequence_length
             THEN finalize_sequence(appended).e
             ELSE appended

\* A variant that makes room for the incoming symbol at a full sequence by
\* dropping the oldest one.
Mut2_add_blink(e, blink_type) ==
    IF blink_type \notin {"S", "L"} THEN e
    ELSE IF e.sequence_complete THEN e
    ELSE IF Len(e.current_sequence) >= max_sequence_length
    THEN [e EXCEPT !.current_sequence = Append(Tail(@), blink_type)]
    ELSE LET appended == [e EXCEPT !.current_sequence = Append(@, blink_type)]
         IN  IF Len(appended.current_sequence) >= max_sequence_length
             THEN finalize_sequence(appended).e
             ELSE appended

\* A variant that does not finalize when the append fills the sequence.
Mut3_add_blink(e, blink_type) ==
    IF blink_type \notin {"S", "L"} THEN e
    ELSE IF e.sequence_complete THEN e
    ELSE IF Len(e.current_sequence) >= max_sequence_length
    THEN finalize_sequence(e).e
    ELSE [e EXCEPT !.current_sequence = Append(@, blink_type)]

\* A variant whose overflow branch starts a new sequence with the symbol.
Mut4_add_blink(e, blink_type) ==
    IF blink_type \notin {"S", "L"} THEN e
    ELSE IF e.sequence_complete THEN e
    ELSE IF Len(e.current_sequence) >= max_sequence_length
    THEN [e EXCEPT !.current_sequence = <<blink_type>>]
    ELSE LET appended == [e EXCEPT !.current_sequence = Append(@, blink_type)]
         IN  IF Len(appended.current_sequence) >= max_sequence_length
             THEN finalize_sequence(appended).e
             ELSE appended

\* add_blink: the engine after the call.
add_blink(e, blink_type) ==
    IF blink_type \notin {"S", "L"} THEN e
    ELSE IF e.sequence_complete THEN e
    ELSE IF Len(e.current_sequence) >= max_sequence_length
    THEN finalize_sequence(e).e
    ELSE LET appended == [e EXCEPT !.current_sequence = Append(@, blink_type)]
         IN  IF Len(appended.current_sequence) >= max_sequence_length
             THEN finalize_sequence(appended).e
             ELSE appended

\* A variant that also forgets last_word.
Mut_clear_sequence(e) ==
    [e EXCEPT !.current_sequence = <<>>, !.sequence_complete = FALSE,
              !.last_word = ""]

\* clear_sequence of the engine: last_word is kept.
clear_sequence(e) ==
    [e EXCEPT !.current_sequence = <<>>, !.sequence_complete = FALSE]

-----------------------------------------------------------------------------
(* Actions *)

Call(op, arg, ret) == [op |-> op, arg |-> arg, ret |-> ret]

\* A calibration call, with the profile that was active when it was made.
CalCall(op, arg, ret) ==
    [op |-> op, arg |-> arg, ret |-> ret, was_active |-> active_profile]

\* A process_ear_sample call, with is_blinking as the call found it.
SampleCall(arg, ret) ==
    [op |-> "process_ear_sample", arg |-> arg, ret |-> ret,
     was_blinking |-> state.is_blinking]

SetManager(m) ==
    /\ active_profile' = m.active
    /\ custom_profile' = m.custom
    /\ current_thresholds' = m.current

SetProfile(profile_name) ==
    LET r == set_profile(TheManager, profile_name)
    IN  /\ SetManager(r.m)
        /\ last' = CalCall("set_profile", profile_name, r.ret)
        /\ held' = Rebound(IF r.ret THEN {"current_thresholds"} ELSE {})
        /\ UNCHANGED <<clfVars, envVars, seqVars, thrVars, sglVars, bufVars,
                 frmVars>>

SetCustomProfile(v) ==
    LET r == set_custom_profile(TheManager, v)
    IN  /\ SetManager(r.m)
        /\ last' = CalCall("set_custom_profile", v, r.ret)
        /\ held' = Rebound(IF ~r.ret THEN {}
                           ELSE IF active_profile = "custom"
                           THEN {"custom_profile", "current_thresholds"}
                           ELSE {"custom_profile"})
        /\ UNCHANGED <<clfVars, envVars, seqVars, thrVars, sglVars, bufVars,
                 frmVars>>

\* POST /api/calibration/set
SetCalibrationProfile(profile) ==
    LET r == set_calibration_profile(TheManager, profile)
    IN  /\ SetManager(r.m)
        /\ last' = CalCall("set_calibration_profile", profile, r.status)
        /\ held' = Rebound(IF r.status = 200 THEN {"current_thresholds"} ELSE {})
        /\ UNCHANGED <<clfVars, envVars, seqVars, thrVars, sglVars, bufVars,
                 frmVars>>

ClearCustomProfile ==
    /\ SetManager(clear_custom_profile(TheManager))
    /\ last' = CalCall("clear_custom_profile", None, None)
    /\ held' = Rebound(IF active_profile = "custom"
                       THEN {"custom_profile", "current_thresholds"}
                       ELSE {"custom_profile"})
    /\ UNCHANGED <<clfVars, envVars, seqVars, thrVars, sglVars, bufVars,
                 frmVars>>

ResetToDefault ==
    /\ SetManager(reset_to_default(TheManager))
    /\ last' = CalCall("reset_to_default", None, None)
    /\ held' = Rebound({"current_thresholds"})
    /\ UNCHANGED <<clfVars, envVars, seqVars, thrVars, sglVars, bufVars,
                 frmVars>>

\* The classifier (and the record of the sample run) after a sample whose
\* outcome is r.
ClassifierSample(ear_value, timestamp, r) ==
    LET blinked == r.new_events # <<>>
        gapped == Len(r.gap_events) > Len(gap_events)
    IN  /\ state' = r.state
        /\ events' = r.events
        /\ gap_events' = r.gap_events
        /\ now' = timestamp
        /\ run_start' = IF ear_value >= ear_threshold THEN None
                        ELSE IF run_start = None THEN Some(timestamp)
                        ELSE run_start
        /\ gap_fired' = IF gapped THEN TRUE ELSE IF blinked THEN FALSE
                        ELSE gap_fired
        /\ run_profile' = IF ear_value < ear_threshold /\ run_start = None
                          THEN Some(active_profile) ELSE run_profile
        /\ idle_run' = IF blinked THEN TRUE
                       ELSE /\ idle_run
                            /\ ear_value >= ear_threshold
                            /\ ~state.is_blinking
                            /\ DurationMs(timestamp, now)
                                 < current_thresholds.word_gap_min_ms
                                   - current_thresholds.symbol_gap_max_ms

ProcessEarSample(ear_value, dt) ==
    LET timestamp == now + dt
        r == process_ear_sample(state, events, gap_events, ear_value, timestamp)
    IN  /\ timestamp <= MaxTime
        /\ Len(r.events) <= MaxEvents
        /\ Len(r.gap_events) <= MaxGaps
        /\ ClassifierSample(ear_value, timestamp, r)
        /\ last' = SampleCall([ear_value |-> ear_value, timestamp |-> timestamp],
                              r.new_events)
        /\ UNCHANGED <<calVars, seqVars, conVars>>

\* A variant that keeps last_event_time.
Mut_ClearSequence ==
    /\ events' = <<>>
    /\ gap_events' = <<>>
    /\ state' = [state EXCEPT !.last_blink_time = None]
    /\ gap_fired' = FALSE
    /\ idle_run' = FALSE
    /\ last' = Call("clear_sequence", None, None)
    /\ UNCHANGED <<calVars, seqVars, conVars, now, run_start, run_profile>>

\* BlinkClassifier.clear_sequence
ClearSequence ==
    /\ events' = <<>>
    /\ gap_events' = <<>>
    /\ state' = [state EXCEPT !.last_event_time = None, !.last_blink_time = None]
    /\ gap_fired' = FALSE
    /\ idle_run' = FALSE
    /\ last' = Call("clear_sequence", None, None)
    /\ UNCHANGED <<calVars, seqVars, conVars, now, run_start, run_profile>>

\* BlinkClassifier.reset
Reset ==
    /\ state' = BlinkState
    /\ events' = <<>>
    /\ gap_events' = <<>>
    /\ run_start' = None
    /\ gap_fired' = FALSE
    /\ idle_run' = FALSE
    /\ last' = Call("reset", None, None)
    /\ UNCHANGED <<calVars, seqVars, conVars, now, run_profile>>

-----------------------------------------------------------------------------
(* Specifications *)

\* The vocabulary of the engine's tests, in the order of its file.
TestVocab ==
    << VocabEntry(<<"S", "S">>, "yes"),
       VocabEntry(<<"L">>, "no"),
       VocabEntry(<<"S", "L">>, "thirsty"),
       VocabEntry(<<"L", "S">>, "hungry"),
       VocabEntry(<<"S", "S", "L">>, "pain"),
       VocabEntry(<<"L", "L">>, "tired"),
       VocabEntry(<<"S", "S", "S">>, "light"),
       VocabEntry(<<"S", "L", "L">>, "temp"),
       VocabEntry(<<"L", "S", "S">>, "bored"),
       VocabEntry(<<"L", "L", "S">>, "feelings") >>

Reverse(seq) == [i \in DOMAIN seq |-> seq[Len(seq) + 1 - i]]

\* Two small vocabulary files.
LightVocab == << VocabEntry(<<"S", "S", "S">>, "light") >>
YesNoVocab == << VocabEntry(<<"S", "S">>, "yes"), VocabEntry(<<"L">>, "no") >>

\* The vocabulary files an engine is constructed on.
Vocabularies == {TestVocab, Reverse(TestVocab), LightVocab, YesNoVocab}

\* The blink_type arguments of add_blink.
BlinkTypes == {"S", "L", "X", ""}

EngineIs(e) ==
    /\ vocab = e.vocab
    /\ current_sequence = e.current_sequence
    /\ last_word = e.last_word
    /\ sequence_complete = e.sequence_complete

SetEngine(e) ==
    /\ vocab' = e.vocab
    /\ current_sequence' = e.current_sequence
    /\ last_word' = e.last_word
    /\ sequence_complete' = e.sequence_complete

AddBlink(blink_type) ==
    /\ SetEngine(add_blink(TheEngine, blink_type))
    /\ last' = Call("add_blink", Some(blink_type), None)
    /\ UNCHANGED <<calVars, clfVars, envVars, conVars>>

FinalizeSequence ==
    LET r == finalize_sequence(TheEngine)
    IN  /\ SetEngine(r.e)
        /\ last' = Call("finalize_sequence", None, r.ret)
        /\ UNCHANGED <<calVars, clfVars, envVars, conVars>>

EngineClearSequence ==
    /\ SetEngine(clear_sequence(TheEngine))
    /\ last' = Call("SequenceEngine.clear_sequence", None, None)
    /\ UNCHANGED <<calVars, clfVars, envVars, conVars>>

\* The threads that call into the process.
Threads == {"t1", "t2"}

\* A thread outside any call.
IdleThread ==
    [pc |-> "idle", op |-> "", arg |-> None, ret |-> None, raised |-> FALSE,
     prev |-> None, epoch |-> 0]

\* No thread in a call, both locks free, no global manager yet, nothing
\* handed out.
ConcurrencyInit ==
    /\ th = [t \in Threads |-> IdleThread]
    /\ lock = [owner |-> None, depth |-> 0]
    /\ _calibration_manager = None
    /\ _calibration_lock = None
    /\ instances = 0
    /\ resets = 0
    /\ held = None
    /\ _frame = None
    /\ _meta = <<>>
    /\ _version = 0
    /\ frame_classifier =
          [state |-> BlinkState, events |-> <<>>, gap_events |-> <<>>]
    /\ frame_engine = SequenceEngineInit(TestVocab)

ClassifierInit ==
    /\ state = BlinkState
    /\ events = <<>>
    /\ gap_events = <<>>
    /\ now = 0
    /\ run_start = None
    /\ gap_fired = FALSE
    /\ run_profile = None
    /\ idle_run = FALSE

\* A CalibrationManager constructed with any default_profile, used on its own.
InitCal ==
    /\ \E default_profile \in ProfileNames :
          LET m == CalibrationManagerInit(default_profile)
          IN  /\ active_profile = m.active
              /\ custom_profile = m.custom
              /\ current_thresholds = m.current
              /\ last = Call("__init__", default_profile, None)
    /\ ClassifierInit
    /\ ConcurrencyInit
    /\ EngineIs(SequenceEngineInit(TestVocab))

NextCal ==
    \/ \E profile_name \in ProfileNames : SetProfile(profile_name)
    \/ \E v \in CustomVecs : SetCustomProfile(v)
    \/ ClearCustomProfile
    \/ ResetToDefault
    \/ \E profile \in ProfileNames : SetCalibrationProfile(profile)

SpecCal == InitCal /\ [][NextCal]_vars

\* The serving process: get_blink_classifier() constructs BlinkClassifier() on
\* first use, on the shared manager in whatever state the calibration calls
\* made before have left it.
SessionProfileNames == {"slow", "medium", "custom"}
SessionCustomVecs == {Vec(200, 600, 800, 400, 1000)}

Init ==
    /\ \E v \in SessionCustomVecs, profile_name \in SessionProfileNames :
          LET m0 == CalibrationManagerInit("medium")
              m1 == set_custom_profile(m0, v).m
              r == set_profile(m1, profile_name)
          IN  /\ active_profile = r.m.active
              /\ custom_profile = r.m.custom
              /\ current_thresholds = r.m.current
              /\ last = Call("set_profile", profile_name, r.ret)
    /\ ClassifierInit
    /\ ConcurrencyInit
    /\ EngineIs(SequenceEngineInit(TestVocab))

Next ==
    \/ \E ear_value \in EarVals, dt \in 0..MaxTime : ProcessEarSample(ear_value, dt)
    \/ ClearSequence
    \/ Reset

Spec == Init /\ [][Next]_vars

\* The serving process with calibration requests arriving between samples:
\* the classifier is never reset.
\* The profiles a calibration request switches to: one other than the active.
SwitchProfileNames == {"slow", "medium"}

NextSwitch ==
    \/ \E ear_value \in EarVals, dt \in 0..MaxTime :
          /\ ProcessEarSample(ear_value, dt)
          /\ Len(events') + Len(gap_events') <= MaxSwitchEvents
    \/ \E profile_name \in SwitchProfileNames \ {active_profile} :
          SetProfile(profile_name)

SpecSwitch == Init /\ [][NextSwitch]_vars

\* A SequenceEngine constructed on one of the vocabulary files, used on its
\* own.
InitSeq ==
    /\ \E v \in Vocabularies : EngineIs(SequenceEngineInit(v))
    /\ LET m == CalibrationManagerInit("medium")
       IN  /\ active_profile = m.active
           /\ custom_profile = m.custom
           /\ current_thresholds = m.current
    /\ ClassifierInit
    /\ ConcurrencyInit
    /\ last = Call("__init__", None, None)

NextSeq ==
    \/ \E blink_type \in BlinkTypes : AddBlink(blink_type)
    \/ FinalizeSequence
    \/ EngineClearSequence

SpecSeq == InitSeq /\ [][NextSeq]_vars

-----------------------------------------------------------------------------
(* CalibrationManager called from several threads: each method body runs
   statement by statement under `with self._lock` *)

\* A variant of the lock that lets every thread in.
Mut_LockAvailable(t) == TRUE

\* RLock.acquire does not block: the lock is free or the caller owns it.
LockAvailable(t) == lock.owner = None \/ lock.owner = Some(t)

\* The lock after thread t has acquired it, and after one release.
Acquired(t) == [owner |-> Some(t), depth |-> lock.depth + 1]
Released(l) ==
    IF l.depth <= 1 THEN [owner |-> None, depth |-> 0]
    ELSE [l EXCEPT !.depth = @ - 1]

\* Thread t enters method op: the `with self._lock` at its top is passed.
Begin(t, op, arg, pc) ==
    /\ th[t].pc \in {"idle", "done"}
    /\ LockAvailable(t)
    /\ lock' = Acquired(t)
    /\ th' = [th EXCEPT ![t] =
                [pc |-> pc, op |-> op, arg |-> arg, ret |-> None,
                 raised |-> FALSE,
                 prev |-> IF th[t].op = "set_profile" /\ th[t].ret = Some(TRUE)
                          THEN th[t].arg ELSE None,
                 epoch |-> 0]]
    /\ UNCHANGED <<calVars, clfVars, envVars, seqVars, sglVars, held, bufVars,
                   frmVars, last>>

\* Thread t goes on to statement pc of its method.
Goto(t, pc) == th' = [th EXCEPT ![t].pc = pc]

\* Thread t leaves its method, returning ret or raising; the `with` block
\* releases the lock either way.
Return(t, ret, raised) ==
    /\ th' = [th EXCEPT ![t].pc = "done", ![t].ret = ret, ![t].raised = raised]
    /\ lock' = Released(lock)

ThreadFrame ==
    UNCHANGED <<clfVars, envVars, seqVars, sglVars, held, bufVars, frmVars, last>>

BeginSetProfile(t, profile_name) ==
    Begin(t, "set_profile", Some(profile_name), "sp_check")

\* set_profile, lines 87-97: the tests that return False.
SpCheck(t) ==
    /\ th[t].pc = "sp_check"
    /\ IF th[t].arg[1] = "custom"
       THEN IF custom_profile = None
            THEN Return(t, Some(FALSE), FALSE)
            ELSE Goto(t, "sp_active") /\ UNCHANGED lock
       ELSE IF th[t].arg[1] \notin DOMAIN CALIBRATION_PROFILES
            THEN Return(t, Some(FALSE), FALSE)
            ELSE Goto(t, "sp_active") /\ UNCHANGED lock
    /\ UNCHANGED calVars
    /\ ThreadFrame

\* set_profile, lines 91 and 100: self._active_profile = profile_name.
SpActive(t) ==
    /\ th[t].pc = "sp_active"
    /\ active_profile' = th[t].arg[1]
    /\ Goto(t, "sp_thresholds")
    /\ UNCHANGED <<custom_profile, current_thresholds, lock>>
    /\ ThreadFrame

\* set_profile, lines 92 and 101: self._current_thresholds = ...;
\* _get_custom_thresholds raises when there is no custom profile.
SpThresholds(t) ==
    /\ th[t].pc = "sp_thresholds"
    /\ IF th[t].arg[1] = "custom"
       THEN IF custom_profile = None
            THEN Return(t, None, TRUE) /\ UNCHANGED current_thresholds
            ELSE /\ current_thresholds' = _get_custom_thresholds(custom_profile)
                 /\ Return(t, Some(TRUE), FALSE)
       ELSE /\ current_thresholds' = _get_profile_thresholds(th[t].arg[1])
            /\ Return(t, Some(TRUE), FALSE)
    /\ UNCHANGED <<active_profile, custom_profile>>
    /\ ThreadFrame

BeginGetThresholds(t) == Begin(t, "get_thresholds", None, "gt_copy")

\* get_thresholds, line 124: return self._current_thresholds.copy().
GtCopy(t) ==
    /\ th[t].pc = "gt_copy"
    /\ Return(t, Some(current_thresholds), FALSE)
    /\ UNCHANGED calVars
    /\ ThreadFrame

BeginSetCustomProfile(t, v) ==
    Begin(t, "set_custom_profile", Some(v), "scp_validate")

\* set_custom_profile, lines 235-237.
ScpValidate(t) ==
    /\ th[t].pc = "scp_validate"
    /\ LET v == th[t].arg[1]
       IN  IF ~_validate_custom_thresholds(v.short_max_ms, v.long_min_ms,
                   v.long_max_ms, v.symbol_gap_max_ms, v.word_gap_min_ms)
           THEN Return(t, Some(FALSE), FALSE)
           ELSE Goto(t, "scp_custom") /\ UNCHANGED lock
    /\ UNCHANGED calVars
    /\ ThreadFrame

\* set_custom_profile, lines 240-249: self._custom_profile = ...
ScpCustom(t) ==
    /\ th[t].pc = "scp_custom"
    /\ LET v == th[t].arg[1]
       IN  custom_profile' =
             Some(CalibrationProfile("custom", v.short_max_ms, v.long_min_ms,
                      v.long_max_ms, v.symbol_gap_max_ms, v.word_gap_min_ms,
                      "Custom calibration profile", TRUE))
    /\ Goto(t, "scp_active")
    /\ UNCHANGED <<active_profile, current_thresholds, lock>>
    /\ ThreadFrame

\* set_custom_profile, lines 252-256.
ScpActive(t) ==
    /\ th[t].pc = "scp_active"
    /\ IF active_profile = "custom"
       THEN IF custom_profile = None
            THEN Return(t, None, TRUE) /\ UNCHANGED current_thresholds
            ELSE /\ current_thresholds' = _get_custom_thresholds(custom_profile)
                 /\ Return(t, Some(TRUE), FALSE)
       ELSE Return(t, Some(TRUE), FALSE) /\ UNCHANGED current_thresholds
    /\ UNCHANGED <<active_profile, custom_profile>>
    /\ ThreadFrame

BeginClearCustomProfile(t) ==
    Begin(t, "clear_custom_profile", None, "ccp_clear")

\* A variant that clears the custom profile and returns, whatever is active.
Mut_CcpClear(t) ==
    /\ th[t].pc = "ccp_clear"
    /\ custom_profile' = None
    /\ Return(t, None, FALSE)
    /\ UNCHANGED <<active_profile, current_thresholds>>
    /\ ThreadFrame

\* clear_custom_profile, lines 342-345: the custom profile goes, and if it
\* was active set_profile("medium") is entered, taking the lock once more.
CcpClear(t) ==
    /\ th[t].pc = "ccp_clear"
    /\ custom_profile' = None
    /\ IF active_profile = "custom"
       THEN Goto(t, "ccp_sp_active") /\ lock' = [lock EXCEPT !.depth = @ + 1]
       ELSE Return(t, None, FALSE)
    /\ UNCHANGED <<active_profile, current_thresholds>>
    /\ ThreadFrame

\* The set_profile("medium") inside clear_custom_profile, line 100.
CcpSpActive(t) ==
    /\ th[t].pc = "ccp_sp_active"
    /\ active_profile' = "medium"
    /\ Goto(t, "ccp_sp_thresholds")
    /\ UNCHANGED <<custom_profile, current_thresholds, lock>>
    /\ ThreadFrame

\* The set_profile("medium") inside clear_custom_profile, lines 101-104, and
\* the return of both methods.
CcpSpThresholds(t) ==
    /\ th[t].pc = "ccp_sp_thresholds"
    /\ current_thresholds' = _get_profile_thresholds("medium")
    /\ th' = [th EXCEPT ![t].pc = "done", ![t].ret = None]
    /\ lock' = Released(Released(lock))
    /\ UNCHANGED <<active_profile, custom_profile>>
    /\ ThreadFrame

\* The arguments the threads pass.
ThreadProfileNames == {"slow", "medium", "custom"}
ThreadCustomVecs ==
    {Vec(200, 600, 800, 400, 1000), Vec(400, 401, 1000, 500, 1200),
     Vec(400, 300, 1000, 500, 1200)}

\* A CalibrationManager() shared by the threads.
InitThreads ==
    /\ LET m == CalibrationManagerInit("medium")
       IN  /\ active_profile = m.active
           /\ custom_profile = m.custom
           /\ current_thresholds = m.current
    /\ ClassifierInit
    /\ ConcurrencyInit
    /\ EngineIs(SequenceEngineInit(TestVocab))
    /\ last = Call("__init__", None, None)

NextThreads ==
    \E t \in Threads :
        \/ \E profile_name \in ThreadProfileNames : BeginSetProfile(t, profile_name)
        \/ SpCheck(t)
        \/ SpActive(t)
        \/ SpThresholds(t)
        \/ BeginGetThresholds(t)
        \/ GtCopy(t)
        \/ \E v \in ThreadCustomVecs : BeginSetCustomProfile(t, v)
        \/ ScpValidate(t)
        \/ ScpCustom(t)
        \/ ScpActive(t)
        \/ BeginClearCustomProfile(t)
        \/ CcpClear(t)
        \/ CcpSpActive(t)
        \/ CcpSpThresholds(t)

SpecThreads == InitThreads /\ [][NextThreads]_vars

BeginGetStats(t) == Begin(t, "get_stats", None, "gs_copy")

\* get_stats, lines 356-365: the dict is built under the lock.
GsCopy(t) ==
    /\ th[t].pc = "gs_copy"
    /\ Return(t, Some(get_stats), FALSE)
    /\ UNCHANGED calVars
    /\ ThreadFrame

\* The threads' calls on a manager constructed with any default_profile,
\* get_stats among them.
NextManager ==
    \/ NextThreads
    \/ \E t \in Threads : BeginGetStats(t)
    \/ \E t \in Threads : GsCopy(t)

SpecManager == InitCal /\ [][NextManager]_vars

-----------------------------------------------------------------------------
(* A caller that keeps what a read operation returned and assigns to it *)

\* get_thresholds()
GetThresholds ==
    /\ held' = Some(ReturnedThresholds)
    /\ last' = Call("get_thresholds", None, get_thresholds)
    /\ UNCHANGED <<calVars, clfVars, envVars, seqVars, thrVars, sglVars, bufVars,
                 frmVars>>

\* get_profile_info(profile_name): a dict built in the call, or None.
GetProfileInfo(profile_name) ==
    LET r == get_profile_info(profile_name)
    IN  /\ held' = IF r = None THEN None ELSE Some(Owned("profile_info", r[1]))
        /\ last' = Call("get_profile_info", profile_name, r)
        /\ UNCHANGED <<calVars, clfVars, envVars, seqVars, thrVars, sglVars, bufVars,
                 frmVars>>

\* get_available_profiles(): a dict built in the call.
GetAvailableProfiles ==
    /\ held' = Some(Owned("available_profiles", get_available_profiles))
    /\ last' = Call("get_available_profiles", None, get_available_profiles)
    /\ UNCHANGED <<calVars, clfVars, envVars, seqVars, thrVars, sglVars, bufVars,
                 frmVars>>

\* get_stats(): a dict built in the call around a copy of the thresholds.
GetStats ==
    /\ held' = Some(Owned("stats", get_stats))
    /\ last' = Call("get_stats", None, get_stats)
    /\ UNCHANGED <<calVars, clfVars, envVars, seqVars, thrVars, sglVars, bufVars,
                 frmVars>>

\* get_custom_profile(): the stored CalibrationProfile, or None.
GetCustomProfile ==
    /\ held' = IF custom_profile = None THEN None ELSE Some(ReturnedCustomProfile)
    /\ last' = Call("get_custom_profile", None, custom_profile)
    /\ UNCHANGED <<calVars, clfVars, envVars, seqVars, thrVars, sglVars, bufVars,
                 frmVars>>

\* The object h after the caller's assignment: h[k] = val on a thresholds
\* dict, h.k = val on a CalibrationProfile (a dataclass that is not frozen),
\* h["thresholds"][k] = val, h["current_thresholds"][k] = val, and
\* h["custom"] = "" on the name -> description dict.
Assigned(h, k, val) ==
    CASE h.kind \in {"thresholds", "custom_profile"} ->
             [h.value EXCEPT ![k] = val]
      [] h.kind = "profile_info" ->
             [h.value EXCEPT !.thresholds[k] = val]
      [] h.kind = "stats" ->
             [h.value EXCEPT !.current_thresholds[k] = val]
      [] h.kind = "available_profiles" ->
             [n \in DOMAIN h.value \cup {"custom"} |->
                 IF n = "custom" THEN "" ELSE h.value[n]]

\* The caller assigns to the object it holds; an object that a field of the
\* manager refers to is changed for the manager too.
Mutate(k, val) ==
    /\ held # None
    /\ LET value == Assigned(held[1], k, val)
       IN  /\ held' = Some([held[1] EXCEPT !.value = value])
           /\ custom_profile' = IF held[1].ref = "custom_profile"
                                THEN Some(value) ELSE custom_profile
           /\ current_thresholds' = IF held[1].ref = "current_thresholds"
                                    THEN value ELSE current_thresholds
    /\ last' = Call("mutate", <<k, val>>, None)
    /\ UNCHANGED <<active_profile, clfVars, envVars, seqVars, thrVars, sglVars, bufVars,
                 frmVars>>

\* What the caller assigns: a value below every range, and one inside the
\* ranges that breaks the ordering.
MutateKeys == {"short_max_ms", "word_gap_min_ms"}
MutateVals == {5, 700}

NextAlias ==
    \/ \E profile_name \in ThreadProfileNames : SetProfile(profile_name)
    \/ \E v \in ThreadCustomVecs : SetCustomProfile(v)
    \/ ClearCustomProfile
    \/ ResetToDefault
    \/ GetThresholds
    \/ \E profile_name \in {None} \cup {Some(n) : n \in ThreadProfileNames} :
          GetProfileInfo(profile_name)
    \/ GetAvailableProfiles
    \/ GetStats
    \/ GetCustomProfile
    \/ \E k \in MutateKeys, val \in MutateVals : Mutate(k, val)

SpecAlias == InitCal /\ [][NextAlias]_vars

-----------------------------------------------------------------------------
(* The module-level manager: get_calibration_manager and
   reset_calibration_manager called from several threads *)

\* A variant of the test under the lock that always constructs.
Mut_NeedsConstruct == TRUE

\* Line 382, the test under _calibration_lock.
NeedsConstruct == _calibration_manager = None

\* Thread t enters the function op; epoch is the number of resets so far.
Enter(t, op, pc) ==
    /\ th[t].pc \in {"idle", "done"}
    /\ th' = [th EXCEPT ![t] =
                [pc |-> pc, op |-> op, arg |-> None, ret |-> None,
                 raised |-> FALSE, prev |-> None, epoch |-> resets]]

SingletonFrame ==
    UNCHANGED <<clfVars, envVars, seqVars, lock, held, bufVars, frmVars, last>>

GcmEnter(t) ==
    /\ Enter(t, "get_calibration_manager", "gcm_check1")
    /\ UNCHANGED <<calVars, sglVars>>
    /\ SingletonFrame

\* Line 380, the test outside the lock.
GcmCheck1(t) ==
    /\ th[t].pc = "gcm_check1"
    /\ Goto(t, IF _calibration_manager = None THEN "gcm_acquire" ELSE "gcm_return")
    /\ UNCHANGED <<calVars, sglVars>>
    /\ SingletonFrame

\* Line 381: with _calibration_lock, a Lock that is not reentrant.
GcmAcquire(t) ==
    /\ th[t].pc = "gcm_acquire"
    /\ _calibration_lock = None
    /\ _calibration_lock' = Some(t)
    /\ Goto(t, "gcm_check2")
    /\ UNCHANGED <<calVars, _calibration_manager, instances, resets>>
    /\ SingletonFrame

\* Lines 382-383 and the end of the with block.
GcmCheck2(t) ==
    /\ th[t].pc = "gcm_check2"
    /\ IF NeedsConstruct
       THEN /\ _calibration_manager' = Some(instances + 1)
            /\ instances' = instances + 1
            /\ SetManager(CalibrationManagerInit("medium"))
       ELSE UNCHANGED <<calVars, _calibration_manager, instances>>
    /\ _calibration_lock' = None
    /\ Goto(t, "gcm_return")
    /\ UNCHANGED resets
    /\ SingletonFrame

\* Line 385: return _calibration_manager, read again. A call during which a
\* reset took effect is marked with epoch -1.
GcmReturn(t) ==
    /\ th[t].pc = "gcm_return"
    /\ th' = [th EXCEPT ![t].pc = "done", ![t].ret = _calibration_manager,
                        ![t].epoch = IF @ = resets THEN @ ELSE -1]
    /\ UNCHANGED <<calVars, sglVars>>
    /\ SingletonFrame

RcmEnter(t) ==
    /\ resets + Cardinality({u \in Threads : th[u].op = "reset_calibration_manager"
                                               /\ th[u].pc # "done"}) < MaxResets
    /\ Enter(t, "reset_calibration_manager", "rcm_acquire")
    /\ UNCHANGED <<calVars, sglVars>>
    /\ SingletonFrame

\* Line 391: with _calibration_lock.
RcmAcquire(t) ==
    /\ th[t].pc = "rcm_acquire"
    /\ _calibration_lock = None
    /\ _calibration_lock' = Some(t)
    /\ Goto(t, "rcm_assign")
    /\ UNCHANGED <<calVars, _calibration_manager, instances, resets>>
    /\ SingletonFrame

\* Line 392 and the end of the with block.
RcmAssign(t) ==
    /\ th[t].pc = "rcm_assign"
    /\ _calibration_manager' = None
    /\ resets' = resets + 1
    /\ _calibration_lock' = None
    /\ Goto(t, "done")
    /\ UNCHANGED <<calVars, instances>>
    /\ SingletonFrame

NextSingleton ==
    \E t \in Threads :
        \/ GcmEnter(t)
        \/ GcmCheck1(t)
        \/ GcmAcquire(t)
        \/ GcmCheck2(t)
        \/ GcmReturn(t)
        \/ RcmEnter(t)
        \/ RcmAcquire(t)
        \/ RcmAssign(t)

SpecSingleton == InitThreads /\ [][NextSingleton]_vars

-----------------------------------------------------------------------------
(* LatestFrameBuffer written and read from several threads.  The buffer's own
   RLock makes each `with self._lock` body one step; what set() does before
   the `with` is a step of its own. *)

\* The frames of the concurrent-writes test: thread i's frame number n, and a
\* caller that passes its own 'version'.
FrameNums == {1, 2}
FrameBytes(thread_id, frame_num) == <<"thread", thread_id, "frame", frame_num>>
ThreadId(t) == IF t = "t1" THEN 1 ELSE 2
CallerMetas(t) ==
    {[thread_id |-> ThreadId(t), frame_num |-> n] : n \in FrameNums}
      \cup {[thread_id |-> ThreadId(t), frame_num |-> 1, version |-> 0]}

\* The dict display of set(): the defaults, overridden by the caller's keys.
\* received_at (the wall clock) is not modelled.
Metadata(frame_bytes, meta, version) ==
    meta @@ [size_bytes |-> Len(frame_bytes), version |-> version + 1]

BufferFrame ==
    UNCHANGED <<calVars, clfVars, envVars, seqVars, lock, sglVars, held, frmVars>>

\* set(), lines 32-41: the metadata is built from self._version with the lock
\* not held.
BufSetBuild(t, frame_bytes, meta) ==
    /\ th[t].pc \in {"idle", "done"}
    /\ _version < MaxVersion
    /\ th' = [th EXCEPT ![t] =
                 [IdleThread EXCEPT
                    !.pc = "set_built", !.op = "set",
                    !.arg = Some([frame_bytes |-> frame_bytes, meta |-> meta,
                                  metadata |->
                                    Metadata(frame_bytes, meta, _version)])]]
    /\ UNCHANGED <<bufVars, last>>
    /\ BufferFrame

\* set(), lines 43-46: the critical section.
BufSetStore(t) ==
    /\ th[t].pc = "set_built"
    /\ _version < MaxVersion
    /\ LET a == th[t].arg[1]
       IN  /\ _frame' = Some(a.frame_bytes)
           /\ _meta' = a.metadata
           /\ _version' = _version + 1
           /\ last' = Call("set", Some([frame_bytes |-> a.frame_bytes,
                                         meta |-> a.meta]), None)
    /\ th' = [th EXCEPT ![t].pc = "done"]
    /\ BufferFrame

\* get()
BufGet(t) ==
    /\ th[t].pc \in {"idle", "done"}
    /\ th' = [th EXCEPT ![t] =
                 [IdleThread EXCEPT
                    !.pc = "done", !.op = "get",
                    !.ret = Some([frame |-> _frame, meta |-> _meta])]]
    /\ last' = Call("get", None, Some([frame |-> _frame, meta |-> _meta]))
    /\ UNCHANGED bufVars
    /\ BufferFrame

\* get_version()
BufGetVersion(t) ==
    /\ th[t].pc \in {"idle", "done"}
    /\ th' = [th EXCEPT ![t] =
                 [IdleThread EXCEPT
                    !.pc = "done", !.op = "get_version", !.ret = Some(_version)]]
    /\ last' = Call("get_version", None, Some(_version))
    /\ UNCHANGED bufVars
    /\ BufferFrame

\* clear()
BufClear(t) ==
    /\ th[t].pc \in {"idle", "done"}
    /\ _version < MaxVersion
    /\ _frame' = None
    /\ _meta' = <<>>
    /\ _version' = _version + 1
    /\ th' = [th EXCEPT ![t] = [IdleThread EXCEPT !.pc = "done", !.op = "clear"]]
    /\ last' = Call("clear", None, None)
    /\ BufferFrame

NextBuffer ==
    \/ \E t \in Threads :
          \E meta \in CallerMetas(t) :
             BufSetBuild(t, FrameBytes(meta.thread_id, meta.frame_num), meta)
    \/ \E t \in Threads : BufSetStore(t)
    \/ \E t \in Threads : BufGet(t)
    \/ \E t \in Threads : BufGetVersion(t)
    \/ \E t \in Threads : BufClear(t)

SpecBuffer == InitThreads /\ [][NextBuffer]_vars

-----------------------------------------------------------------------------
(* The serving handlers.  state, events, gap_events and the engine variables
   are _blink_classifier and _sequence_engine of api/routers/translation.py;
   frame_classifier and frame_engine are the globals of the same names of
   api/routers/frame.py.  Both classifiers read the one calibration manager. *)

\* get_recent_gaps on a gap history.
GetRecentGaps(gaps, max_events) ==
    IF gaps = <<>> THEN <<>>
    ELSE SubSeq(gaps,
                IF Len(gaps) > max_events THEN Len(gaps) - max_events + 1 ELSE 1,
                Len(gaps))

\* The loop over blink_events: one add_blink per short or long blink.
RECURSIVE AddBlinks(_, _)
AddBlinks(e, blink_events) ==
    IF blink_events = <<>> THEN e
    ELSE LET event == Head(blink_events)
             e1 == IF event.blink_type = "S" THEN add_blink(e, "S")
                   ELSE IF event.blink_type = "L" THEN add_blink(e, "L")
                   ELSE e
         IN  AddBlinks(e1, Tail(blink_events))

\* The word-gap test of the handlers: the last entry of the gap history.
WordGapDetected(gaps) ==
    LET recent_gaps == GetRecentGaps(gaps, 1)
    IN  recent_gaps # <<>> /\ recent_gaps[1].gap_type = "word_gap"

\* What a sample handler leaves and answers: the classifier outcome r, the
\* engine e and the fields of the response.  finalized records that
\* finalize_sequence() was called, new_gaps the gap events this sample
\* appended to the n there were.
SampleResult(r, e, word_gap_detected, n) ==
    [r |-> r, engine |-> e,
     response |->
        [status |-> 200,
         blink_events |-> Len(r.new_events),
         current_sequence |-> e.current_sequence,
         word_gap_detected |-> word_gap_detected,
         sequence_complete |-> e.sequence_complete,
         last_word |-> IF e.sequence_complete THEN e.last_word ELSE "",
         finalized |-> word_gap_detected,
         new_gaps |-> SubSeq(r.gap_events, n + 1, Len(r.gap_events))]]

\* The handlers after the classifier call: the blinks go to the engine, and
\* finalize_sequence() is called when the word-gap test passes.
AfterSample(r, e, n) ==
    SampleResult(r,
                 IF WordGapDetected(r.gap_events)
                 THEN finalize_sequence(AddBlinks(e, r.new_events)).e
                 ELSE AddBlinks(e, r.new_events),
                 WordGapDetected(r.gap_events), n)

\* The body both sample handlers share.
HandleSample(st, evs, gaps, e, ear_value, timestamp) ==
    AfterSample(process_ear_sample(st, evs, gaps, ear_value, timestamp), e,
                Len(gaps))

\* The time between two samples of a stream: the next tick, or a pause.
SampleDts == {1, 5}

\* What a request carries as ear_value, and what the eye tracker finds in a
\* frame: a number, or nothing.
OptEarVals == {None} \cup {Some(v) : v \in EarVals}

\* POST /api/translation/process_ear
TranslationProcessEar(ear, dt) ==
    IF ear = None
    THEN /\ last' = Call("process_ear", ear, [status |-> 400])
         /\ UNCHANGED <<calVars, clfVars, envVars, seqVars, conVars>>
    ELSE \E timestamp \in {now + dt} :
         \E h \in {HandleSample(state, events, gap_events, TheEngine, ear[1],
                                timestamp)} :
             /\ timestamp <= MaxServeTime
             /\ Len(h.r.events) <= MaxEvents
             /\ Len(h.r.gap_events) <= MaxGaps
             /\ ClassifierSample(ear[1], timestamp, h.r)
             /\ SetEngine(h.engine)
             /\ last' = Call("process_ear", ear, h.response)
             /\ UNCHANGED <<calVars, conVars>>

\* POST /api/frame/process from the decoded frame on: process_frame_for_blinks
ProcessFrameForBlinks(ear, dt) ==
    IF ear = None
    THEN /\ last' = Call("process_frame",  ear,
                         [status |-> 200, success |-> FALSE,
                          blink_events |-> 0,
                          current_sequence |-> frame_engine.current_sequence,
                          sequence_complete |-> frame_engine.sequence_complete])
         /\ UNCHANGED <<calVars, clfVars, envVars, seqVars, conVars>>
    ELSE \E timestamp \in {now + dt} :
         \E h \in {HandleSample(frame_classifier.state, frame_classifier.events,
                                frame_classifier.gap_events, frame_engine,
                                ear[1], timestamp)} :
             /\ timestamp <= MaxServeTime
             /\ Len(h.r.events) <= MaxEvents
             /\ Len(h.r.gap_events) <= MaxGaps
             /\ frame_classifier' = [state |-> h.r.state, events |-> h.r.events,
                                     gap_events |-> h.r.gap_events]
             /\ frame_engine' = h.engine
             /\ now' = timestamp
             /\ last' = Call("process_frame", ear, h.response)
             /\ UNCHANGED <<calVars, clfVars, seqVars, thrVars, sglVars, held,
                            bufVars, run_start, gap_fired, run_profile, idle_run>>

\* GET /api/translation.  The statistics it records are not modelled.
GetTranslation ==
    /\ IF sequence_complete
       THEN /\ SetEngine(clear_sequence(TheEngine))
            /\ last' = Call("get_translation", None, [output |-> last_word])
       ELSE /\ UNCHANGED seqVars
            /\ last' = Call("get_translation", None, [output |-> ""])
    /\ UNCHANGED <<calVars, clfVars, envVars, conVars>>

\* POST /api/translation/reset
ResetSequence ==
    /\ SetEngine(clear_sequence(TheEngine))
    /\ state' = BlinkState
    /\ events' = <<>>
    /\ gap_events' = <<>>
    /\ run_start' = None
    /\ gap_fired' = FALSE
    /\ idle_run' = FALSE
    /\ last' = Call("reset_sequence", None, None)
    /\ UNCHANGED <<calVars, conVars, now, run_profile>>

NextServe ==
    \/ \E ear \in OptEarVals, dt \in SampleDts : TranslationProcessEar(ear, dt)
    \/ \E ear \in OptEarVals, dt \in SampleDts : ProcessFrameForBlinks(ear, dt)
    \/ GetTranslation
    \/ ResetSequence

\* The serving process after a calibration request made a custom profile the
\* active one.
InitServe == Init /\ active_profile = "custom"

SpecServe == InitServe /\ [][NextServe]_vars


-----------------------------------------------------------------------------
(* Properties of the CalibrationManager, checked under SpecCal *)

SlowVec == Vec(500, 501, 1200, 600, 1500)
MediumVec == Vec(350, 351, 900, 450, 1100)

\* C2: set_custom_profile succeeds if and only if each of the five values lies
\* in its range (bounds included) and short_max_ms < long_min_ms < long_max_ms
\* and symbol_gap_max_ms < word_gap_min_ms.
C2_CustomProfileAcceptedIff ==
    last.op = "set_custom_profile" =>
        LET v == last.arg
        IN  last.ret = ( /\ v.short_max_ms \in 100..2000
                         /\ v.long_min_ms \in 200..3000
                         /\ v.long_max_ms \in 500..5000
                         /\ v.symbol_gap_max_ms \in 200..2000
                         /\ v.word_gap_min_ms \in 500..5000
                         /\ v.short_max_ms < v.long_min_ms
                         /\ v.long_min_ms < v.long_max_ms
                         /\ v.symbol_gap_max_ms < v.word_gap_min_ms )

\* The upper bound of every range, accepted in one call.
C2_Witness ==
    /\ last.op = "set_custom_profile"
    /\ last.arg = Vec(2000, 3000, 5000, 2000, 5000)
    /\ last.ret = TRUE

\* C3: a rejected set_custom_profile leaves the active profile, the thresholds
\* get_thresholds() returns and the stored custom profile as they were.
C3_RejectedCustomChangesNothing ==
    [][ (last'.op = "set_custom_profile" /\ last'.ret = FALSE)
        => /\ active_profile' = active_profile
           /\ get_thresholds' = get_thresholds
           /\ custom_profile' = custom_profile ]_vars

\* A rejected call made while an earlier custom profile is stored and active.
C3_Witness ==
    /\ last.op = "set_custom_profile"
    /\ last.ret = FALSE
    /\ last.was_active = "custom"
    /\ custom_profile # None
    /\ active_profile = "custom"

\* C4: the thresholds get_thresholds() returns are positive and ordered,
\* short_max_ms < long_min_ms < long_max_ms, symbol_gap_max_ms < word_gap_min_ms,
\* after any sequence of the four mutating calls.
C4_ThresholdsOrdered ==
    LET t == get_thresholds
    IN  /\ \A k \in ThresholdKeys : t[k] > 0
        /\ t.short_max_ms < t.long_min_ms
        /\ t.long_min_ms < t.long_max_ms
        /\ t.symbol_gap_max_ms < t.word_gap_min_ms

\* The custom profile replaced while it is the active one.
C4_Witness ==
    /\ last.op = "set_custom_profile"
    /\ last.ret = TRUE
    /\ last.was_active = "custom"
    /\ get_thresholds = last.arg

\* C5: set_profile(name) succeeds exactly for "slow", "medium", and for "custom"
\* while a custom profile exists; on success the active profile is name and the
\* thresholds are that profile's five values, on failure both are unchanged;
\* the stored custom profile is untouched either way.
C5_SetProfile ==
    [][ last'.op = "set_profile"
        => LET name == last'.arg
               ok == \/ name \in {"slow", "medium"}
                     \/ (name = "custom" /\ custom_profile # None)
               want == IF name = "slow" THEN SlowVec
                       ELSE IF name = "medium" THEN MediumVec
                       ELSE Vec(custom_profile[1].short_max_ms,
                                custom_profile[1].long_min_ms,
                                custom_profile[1].long_max_ms,
                                custom_profile[1].symbol_gap_max_ms,
                                custom_profile[1].word_gap_min_ms)
           IN  /\ last'.ret = ok
               /\ custom_profile' = custom_profile
               /\ IF ok
                  THEN active_profile' = name /\ get_thresholds' = want
                  ELSE active_profile' = active_profile
                       /\ get_thresholds' = get_thresholds ]_vars

\* A switch from slow to medium.
C5_Witness ==
    /\ last.op = "set_profile"
    /\ last.arg = "medium"
    /\ last.was_active = "slow"
    /\ last.ret = TRUE
    /\ get_thresholds = MediumVec

\* C6: set_custom_profile(v) accepted, then set_profile("custom"), then
\* get_thresholds() returns exactly v, whatever was active or stored before.
C6_CustomRoundTrip ==
    [][ ( /\ last.op = "set_custom_profile" /\ last.ret = TRUE
          /\ last'.op = "set_profile" /\ last'.arg = "custom" )
        => last'.ret = TRUE /\ get_thresholds' = last.arg ]_vars

\* The switch to a custom profile made from another active profile.
C6_Witness ==
    /\ last.op = "set_profile"
    /\ last.arg = "custom"
    /\ last.ret = TRUE
    /\ last.was_active = "slow"
    /\ get_thresholds = Vec(400, 401, 1000, 500, 1200)

NoCustomVisible ==
    /\ "custom" \notin DOMAIN get_available_profiles
    /\ get_profile_info(Some("custom")) = None

\* C7: clear_custom_profile removes the custom profile; an active "custom"
\* falls back to "medium" with medium's thresholds, any other active profile
\* and its thresholds stay.  From then until a set_custom_profile succeeds,
\* "custom" is not listed, get_profile_info("custom") is none and
\* set_profile("custom") fails.
C7_ClearCustomProfile ==
    [][ /\ last'.op = "clear_custom_profile"
           => /\ custom_profile' = None
              /\ NoCustomVisible'
              /\ IF active_profile = "custom"
                 THEN active_profile' = "medium" /\ get_thresholds' = MediumVec
                 ELSE active_profile' = active_profile
                      /\ get_thresholds' = get_thresholds
        /\ (NoCustomVisible /\ ~(last'.op = "set_custom_profile" /\ last'.ret = TRUE))
           => NoCustomVisible'
        /\ (NoCustomVisible /\ last'.op = "set_profile" /\ last'.arg = "custom")
           => last'.ret = FALSE ]_vars

\* The custom profile cleared while it was the active one.
C7_Witness ==
    /\ last.op = "clear_custom_profile"
    /\ last.was_active = "custom"
    /\ active_profile = "medium"
    /\ custom_profile = None

-----------------------------------------------------------------------------
(* Properties of the BlinkClassifier, checked under Spec *)

\* The step is a process_ear_sample call.
IsSample == last'.op = "process_ear_sample"

\* The step is a sample with an open eye that finds the classifier Idle.
IsIdleSample ==
    IsSample /\ ~state.is_blinking /\ last'.arg.ear_value >= ear_threshold

\* The gap check's own test that a silence window is open, on last_event_time
\* let and the gap history.
WindowOpenAt(let, gaps) ==
    let # None /\ (gaps = <<>> \/ gaps[Len(gaps)].timestamp < let[1])

C8_GapClassification ==
    [][ (IsIdleSample /\ WindowOpenAt(state.last_event_time, gap_events))
        => LET ts == last'.arg.timestamp
               gap_ms == DurationMs(ts, state.last_event_time[1])
               t == get_thresholds
               kind == IF gap_ms >= t.word_gap_min_ms THEN "word_gap"
                       ELSE IF gap_ms >= t.symbol_gap_max_ms THEN "symbol_gap"
                       ELSE "none"
           IN  IF kind = "none"
               THEN /\ gap_events' = gap_events
                    /\ state'.last_event_time = state.last_event_time
               ELSE /\ gap_events' = Append(gap_events, GapEvent(kind, ts, gap_ms))
                    /\ state'.last_event_time = Some(ts)
      ]_vars

\* A silence of exactly word_gap_min_ms, emitted as a WordGap by this sample.
C8_Witness ==
    /\ last.op = "process_ear_sample"
    /\ last.ret = <<>>
    /\ gap_events # <<>>
    /\ gap_events[Len(gap_events)].timestamp = last.arg.timestamp
    /\ gap_events[Len(gap_events)].gap_type = "word_gap"
    /\ gap_events[Len(gap_events)].duration_ms = get_thresholds.word_gap_min_ms
    /\ state.last_event_time = Some(last.arg.timestamp)

\* C9: one gap event per silence window.  A sample emits a gap event only if
\* no gap event was emitted since the last BlinkEvent; and once a BlinkEvent
\* has been emitted gap detection is armed again: an open-eye sample that finds
\* the classifier Idle, no gap event emitted since the last BlinkEvent, and at
\* least symbol_gap_max_ms after that BlinkEvent, emits a gap event.
C9_OneGapPerWindow ==
    [][ /\ (IsSample /\ gap_events' # gap_events)
           => (~gap_fired \/ last'.ret # <<>>)
        /\ (IsIdleSample /\ events # <<>> /\ ~gap_fired
              /\ DurationMs(last'.arg.timestamp, events[Len(events)].timestamp)
                   >= get_thresholds.symbol_gap_max_ms)
           => Len(gap_events') = Len(gap_events) + 1
      ]_vars

\* C10: every sample that leaves the classifier Idle while last_event_time
\* exists and the silence window is open emits the gap event that is due on
\* that same sample, the sample that closes a blink rejected as noise included.
C10_GapCheckOnEveryIdleSample ==
    [][ IsSample /\ ~state'.is_blinking
        => LET ts == last'.arg.timestamp
               let == IF last'.ret # <<>> THEN Some(ts) ELSE state.last_event_time
           IN  (WindowOpenAt(let, gap_events)
                  /\ DurationMs(ts, let[1]) >= get_thresholds.symbol_gap_max_ms)
               => Len(gap_events') = Len(gap_events) + 1
      ]_vars

-----------------------------------------------------------------------------
(* The current sequence of the BlinkClassifier, checked under Spec *)

\* The timestamps of the word gaps in a gap history.
WordGapTimes(gaps) ==
    {gaps[i].timestamp : i \in {j \in DOMAIN gaps : gaps[j].gap_type = "word_gap"}}

\* The kinds, in order, of the events whose timestamp is strictly greater
\* than that of the word gap with the largest index; of all events if gaps
\* holds no word gap.
KindsAfterLatestWordGap(evs, gaps) ==
    LET wg == {j \in DOMAIN gaps : gaps[j].gap_type = "word_gap"}
        latest == CHOOSE j \in wg : \A k \in wg : k <= j
        kept == SelectSeq(evs, LAMBDA e : wg = {} \/ e.timestamp > gaps[latest].timestamp)
    IN  [i \in DOMAIN kept |-> kept[i].blink_type]

C11_WitnessSymbolGap ==
    /\ last.op = "process_ear_sample"
    /\ gap_events # <<>>
    /\ gap_events[Len(gap_events)].gap_type = "symbol_gap"
    /\ gap_events[Len(gap_events)].timestamp = last.arg.timestamp
    /\ get_current_sequence(events, gap_events) # <<>>

C13_BlinkingIffBelowThreshold ==
    [][ IsSample
        => LET ear_value == last'.arg.ear_value
               timestamp == last'.arg.timestamp
           IN  /\ state'.is_blinking <=> ear_value < ear_threshold
               /\ state'.blink_start_time # None <=> state'.is_blinking
               /\ state'.is_blinking
                  => /\ state'.blink_start_time
                          = IF state.is_blinking THEN state.blink_start_time
                            ELSE Some(timestamp)
                     /\ state'.blink_start_time = run_start'
      ]_vars

\* A later below-threshold sample of a run: Blinking, with blink_start_time
\* still at the earlier sample that started the run.
C13_Witness ==
    /\ last.op = "process_ear_sample"
    /\ last.arg.ear_value < ear_threshold
    /\ state.is_blinking
    /\ state.blink_start_time # None
    /\ state.blink_start_time[1] < last.arg.timestamp

\* A sample with ear_value equal to ear_threshold: Idle, no blink_start_time.
C13_WitnessEqual ==
    /\ last.op = "process_ear_sample"
    /\ last.arg.ear_value = ear_threshold
    /\ ~state.is_blinking
    /\ state.blink_start_time = None
    /\ last.ret # <<>>

-----------------------------------------------------------------------------
(* Properties of the SequenceEngine, checked under SpecSeq *)

IsFinalize == last'.op = "finalize_sequence"
IsAddBlink == last'.op = "add_blink"

\* The symbols of a vocabulary pattern, as a list.
PatternSymbols(pattern) ==
    LET parts == split(pattern) IN [i \in DOMAIN parts |-> parts[i][1]]

\* The vocabulary entries whose pattern is the symbol list seq.
ExactEntries(v, seq) == {i \in DOMAIN v : PatternSymbols(v[i].pattern) = seq}

\* The fuzzy rules on symbol lists: one substitution in a pattern of more than
\* one symbol, or one extra trailing symbol.
FuzzyQualifies(input, entry) ==
    \/ /\ Len(input) = Len(entry)
       /\ Len(input) > 1
       /\ Cardinality({i \in DOMAIN input : input[i] # entry[i]}) = 1
    \/ /\ Len(input) = Len(entry) + 1
       /\ SubSeq(input, 1, Len(entry)) = entry

\* The vocabulary entries that qualify for seq under the fuzzy rules.
FuzzyEntries(v, seq) ==
    {i \in DOMAIN v : FuzzyQualifies(seq, PatternSymbols(v[i].pattern))}

\* C14: finalize_sequence() on a non-empty sequence whose pattern equals a
\* vocabulary pattern returns that pattern's word, sets sequence_complete and
\* sets last_word to that word, also when an earlier vocabulary entry
\* qualifies under the fuzzy rules.
C14_ExactMatch ==
    [][ (IsFinalize /\ current_sequence # <<>>
           /\ ExactEntries(vocab, current_sequence) # {})
        => \E i \in ExactEntries(vocab, current_sequence) :
              /\ last'.ret = Some(vocab[i].word)
              /\ last_word' = vocab[i].word
              /\ sequence_complete'
              /\ current_sequence' = current_sequence
      ]_vars

\* An exact match returned although an earlier entry, with another word,
\* qualifies under the fuzzy rules.
C14_Witness ==
    /\ last.op = "finalize_sequence"
    /\ sequence_complete
    /\ \E i \in ExactEntries(vocab, current_sequence) :
          /\ last.ret = Some(vocab[i].word)
          /\ last_word = vocab[i].word
          /\ \E j \in FuzzyEntries(vocab, current_sequence) :
                j < i /\ vocab[j].word # vocab[i].word

C15_WitnessNotPrefix ==
    /\ last.op = "finalize_sequence"
    /\ last.ret = None
    /\ \E i \in DOMAIN vocab :
          LET entry == PatternSymbols(vocab[i].pattern)
          IN  /\ Len(entry) + 1 = Len(current_sequence)
              /\ _is_subsequence(entry, current_sequence)
              /\ ~_is_prefix_match(entry, current_sequence)

\* C16: when several vocabulary entries qualify under the fuzzy rules and
\* none matches exactly, finalize_sequence() returns the word of the first
\* of them in the vocabulary's order.
C16_FirstInDeclarationOrder ==
    [][ (IsFinalize /\ current_sequence # <<>>
           /\ ExactEntries(vocab, current_sequence) = {}
           /\ FuzzyEntries(vocab, current_sequence) # {})
        => LET hits == FuzzyEntries(vocab, current_sequence)
               first == CHOOSE i \in hits : \A k \in hits : i <= k
           IN  /\ last'.ret = Some(vocab[first].word)
               /\ last_word' = vocab[first].word
      ]_vars

\* Several entries qualify, and the same engine on the reversed vocabulary
\* returns another word.
C16_Witness ==
    /\ last.op = "finalize_sequence"
    /\ last.ret # None
    /\ ExactEntries(vocab, current_sequence) = {}
    /\ Cardinality(FuzzyEntries(vocab, current_sequence)) > 1
    /\ LET e == Engine(Reverse(vocab), current_sequence, "", FALSE)
       IN  /\ finalize_sequence(e).ret # None
           /\ finalize_sequence(e).ret # last.ret

\* C17: finalize_sequence() returns None and changes neither the symbol list
\* nor sequence_complete nor last_word when the sequence is empty, and when
\* it is non-empty with neither an exact nor a fuzzy match; sequence_complete
\* is false afterwards.
C17_NoMatchChangesNothing ==
    [][ (IsFinalize
           /\ \/ current_sequence = <<>>
              \/ /\ ExactEntries(vocab, current_sequence) = {}
                 /\ FuzzyEntries(vocab, current_sequence) = {})
        => /\ last'.ret = None
           /\ UNCHANGED seqVars
           /\ ~sequence_complete'
      ]_vars

\* A non-empty sequence without a match, finalized after an earlier word:
\* the symbols and the earlier last_word are still there.
C17_Witness ==
    /\ last.op = "finalize_sequence"
    /\ last.ret = None
    /\ current_sequence # <<>>
    /\ ~sequence_complete
    /\ last_word # ""

\* finalize_sequence() on the empty sequence.
C17_WitnessEmpty ==
    /\ last.op = "finalize_sequence"
    /\ last.ret = None
    /\ current_sequence = <<>>
    /\ last_word # ""

\* C18: add_blink(blink_type) changes neither the symbol list nor
\* sequence_complete nor last_word when blink_type is not "S" or "L", the
\* empty string included, and when sequence_complete is already true.
C18_AddBlinkIgnored ==
    [][ (IsAddBlink /\ (last'.arg[1] \notin {"S", "L"} \/ sequence_complete))
        => UNCHANGED seqVars
      ]_vars

\* A valid symbol offered to a complete sequence that has room for it.
C18_Witness ==
    /\ last.op = "add_blink"
    /\ last.arg[1] \in {"S", "L"}
    /\ sequence_complete
    /\ Len(current_sequence) < max_sequence_length

\* The empty string offered to a sequence that is not complete.
C18_WitnessEmptyString ==
    /\ last.op = "add_blink"
    /\ last.arg[1] = ""
    /\ ~sequence_complete
    /\ current_sequence # <<>>

\* C19: the symbol list never holds more than max_sequence_length symbols;
\* add_blink of a valid symbol on a sequence that is not complete and holds
\* max_sequence_length symbols acts as finalize_sequence() on these symbols
\* and does not append the incoming symbol.
C19_MaxSequenceLength ==
    [][ /\ Len(current_sequence') <= max_sequence_length
        /\ (IsAddBlink /\ last'.arg[1] \in {"S", "L"} /\ ~sequence_complete
               /\ Len(current_sequence) = max_sequence_length)
           => /\ current_sequence' = current_sequence
              /\ TheEngine' = finalize_sequence(TheEngine).e
      ]_vars

\* A valid symbol offered to a full sequence that is not complete.
C19_Witness ==
    /\ last.op = "add_blink"
    /\ last.arg[1] \in {"S", "L"}
    /\ ~sequence_complete
    /\ Len(current_sequence) = max_sequence_length
    /\ last.arg[1] # current_sequence[max_sequence_length]

\* C20: an add_blink that brings the symbol list to max_sequence_length
\* leaves the engine as appending the symbol and then calling
\* finalize_sequence() would: sequence_complete is set within the call iff
\* the full pattern has an exact or a fuzzy match, and last_word is then the
\* matched word.
C20_AutoFinalize ==
    [][ (IsAddBlink /\ last'.arg[1] \in {"S", "L"} /\ ~sequence_complete
           /\ Len(current_sequence) = max_sequence_length - 1)
        => LET full == Append(current_sequence, last'.arg[1])
               r == finalize_sequence([TheEngine EXCEPT !.current_sequence = full])
           IN  /\ TheEngine' = r.e
               /\ current_sequence' = full
               /\ sequence_complete'
                    <=> (ExactEntries(vocab, full) # {}
                           \/ FuzzyEntries(vocab, full) # {})
               /\ sequence_complete' => Some(last_word') = r.ret
               /\ ~sequence_complete' => last_word' = last_word
      ]_vars

\* S S S S on a vocabulary that maps "S S S" to "light": the fourth add_blink
\* itself leaves the engine complete with last_word "light".
C20_Witness ==
    /\ last.op = "add_blink"
    /\ current_sequence = <<"S", "S", "S", "S">>
    /\ ExactEntries(vocab, <<"S", "S", "S">>) # {}
    /\ sequence_complete
    /\ last_word = "light"

IsEngineClear == last'.op = "SequenceEngine.clear_sequence"

\* C21: clear_sequence() of the engine always leaves an empty symbol list and
\* sequence_complete false and never changes last_word; last_word changes
\* only in a finalize_sequence(), called or run by add_blink, that finds a
\* match, so it keeps its value across clears, ignored blinks and failed
\* finalizes.
C21_ClearKeepsLastWord ==
    [][ /\ IsEngineClear
           => /\ current_sequence' = <<>>
              /\ ~sequence_complete'
              /\ last_word' = last_word
        /\ last_word' # last_word
           => \/ IsFinalize /\ last'.ret = Some(last_word')
              \/ /\ IsAddBlink /\ ~sequence_complete /\ sequence_complete'
                 /\ Len(current_sequence') = max_sequence_length
      ]_vars

\* A clear after a recognised word: the list is empty, last_word is still
\* that word.
C21_Witness ==
    /\ last.op = "SequenceEngine.clear_sequence"
    /\ current_sequence = <<>>
    /\ ~sequence_complete
    /\ last_word # ""

\* C22: finalize_sequence() is idempotent: a second call right after a first
\* returns what the first returned and leaves the symbol list,
\* sequence_complete and last_word as the first left them; and
\* finalize_sequence() never modifies the symbol list.
C22_FinalizeIdempotent ==
    [][ /\ IsFinalize
           => /\ current_sequence' = current_sequence
              /\ finalize_sequence(TheEngine').ret = last'.ret
              /\ finalize_sequence(TheEngine').e = TheEngine'
        /\ (last.op = "finalize_sequence" /\ IsFinalize)
           => (last'.ret = last.ret /\ UNCHANGED seqVars)
      ]_vars

\* A finalize_sequence() that found a word on a sequence that was not yet
\* complete; a second call finds the same word.
C22_Witness ==
    /\ last.op = "finalize_sequence"
    /\ last.ret # None
    /\ sequence_complete
    /\ Len(current_sequence) < max_sequence_length
    /\ finalize_sequence(TheEngine).ret = last.ret

\* C27: from any reachable classifier state reset() yields the initial state:
\* Idle, no blink_start_time, no last_event_time, empty event and gap
\* histories; clear_sequence() empties both histories and clears
\* last_event_time, so that get_current_sequence() is empty and no sample
\* emits a gap event until a BlinkEvent has been emitted again; neither
\* changes the active profile, the thresholds or the custom profile.
C27_ResetAndClear ==
    [][ /\ last'.op = "reset"
           => /\ ~state'.is_blinking
              /\ state'.blink_start_time = None
              /\ state'.last_event_time = None
              /\ state' = BlinkState
              /\ events' = <<>> /\ gap_events' = <<>>
              /\ UNCHANGED calVars
        /\ last'.op = "clear_sequence"
           => /\ events' = <<>> /\ gap_events' = <<>>
              /\ state'.last_event_time = None
              /\ get_current_sequence(events', gap_events') = <<>>
              /\ UNCHANGED calVars
        /\ (IsSample /\ events = <<>>) => gap_events' = <<>>
      ]_vars

\* clear_sequence() called on a classifier that has seen samples and is in
\* the middle of a blink: the histories and last_event_time are empty.
C27_Witness ==
    /\ last.op = "clear_sequence"
    /\ now > 0
    /\ state.is_blinking
    /\ events = <<>>
    /\ gap_events = <<>>
    /\ state.last_event_time = None

\* reset() called in the middle of a blink.
C27_WitnessReset ==
    /\ last.op = "reset"
    /\ now > 0
    /\ state = BlinkState

\* A sample long after the histories were emptied, Idle before and after: no
\* gap event.
C27_WitnessNoGap ==
    /\ last.op = "process_ear_sample"
    /\ last.arg.ear_value >= ear_threshold
    /\ last.ret = <<>>
    /\ run_start = None
    /\ events = <<>>
    /\ gap_events = <<>>
    /\ DurationMs(now, 0) >= get_thresholds.word_gap_min_ms

\* C28: clear_sequence() called while a blink is in progress drops that
\* blink: the next sample, with ear_value >= ear_threshold, emits no
\* BlinkEvent.
C28_ClearDropsBlinkInProgress ==
    [][ (last.op = "clear_sequence" /\ state.is_blinking /\ IsSample
           /\ last'.arg.ear_value >= ear_threshold)
        => last'.ret = <<>>
      ]_vars

-----------------------------------------------------------------------------
(* The classifier under profile changes, checked under SpecSwitch *)

\* C30: every process_ear_sample call classifies with the thresholds that the
\* calibration manager holds at that call, the blink it closes and the gap it
\* checks alike: a blink is classified with the thresholds active at its
\* closing sample, whatever was active when it started; and set_profile
\* leaves the classifier as it is, so the change acts on the next sample.
C30_ThresholdsOfTheClosingSample ==
    [][ /\ (IsSample /\ state.is_blinking /\ last'.arg.ear_value >= ear_threshold)
           => LET duration_ms == DurationMs(last'.arg.timestamp,
                                            state.blink_start_time[1])
                  t == current_thresholds
                  kind == IF duration_ms <= t.short_max_ms THEN "S"
                          ELSE IF t.long_min_ms <= duration_ms
                                  /\ duration_ms <= t.long_max_ms THEN "L"
                          ELSE "none"
              IN  IF kind = "none" THEN last'.ret = <<>>
                  ELSE /\ Len(last'.ret) = 1
                       /\ last'.ret[1].blink_type = kind
        /\ (IsIdleSample /\ WindowOpenAt(state.last_event_time, gap_events))
           => LET gap_ms == DurationMs(last'.arg.timestamp,
                                       state.last_event_time[1])
                  t == current_thresholds
                  kind == IF gap_ms >= t.word_gap_min_ms THEN "word_gap"
                          ELSE IF gap_ms >= t.symbol_gap_max_ms THEN "symbol_gap"
                          ELSE "none"
              IN  IF kind = "none" THEN gap_events' = gap_events
                  ELSE /\ Len(gap_events') = Len(gap_events) + 1
                       /\ gap_events'[Len(gap_events')].gap_type = kind
        /\ last'.op = "set_profile" => UNCHANGED <<clfVars, envVars>>
      ]_vars

\* A blink that started under medium and closed under slow after 400 ms: it
\* is emitted as Short, where medium's thresholds make it Long.
C30_Witness ==
    /\ last.op = "process_ear_sample"
    /\ last.ret # <<>>
    /\ run_profile = Some("medium")
    /\ active_profile = "slow"
    /\ last.ret[1].blink_type = "S"
    /\ ClassifyBlink(last.ret[1].duration_ms, _get_profile_thresholds("medium")) = "L"

\* A silence of 1200 ms after a blink made under medium, checked under slow:
\* a SymbolGap, where medium's thresholds make it a WordGap.
C30_WitnessGap ==
    /\ last.op = "process_ear_sample"
    /\ run_profile = Some("medium")
    /\ active_profile = "slow"
    /\ gap_events # <<>>
    /\ gap_events[Len(gap_events)].timestamp = last.arg.timestamp
    /\ gap_events[Len(gap_events)].gap_type = "symbol_gap"
    /\ ClassifyGap(gap_events[Len(gap_events)].duration_ms,
                   _get_profile_thresholds("medium")) = "word_gap"

-----------------------------------------------------------------------------
(* The CalibrationManager under concurrent calls, checked under SpecThreads *)

\* The threshold sets of the single profiles: slow, medium, and each custom
\* vector that set_custom_profile accepts.
SingleProfileThresholds ==
    {_get_profile_thresholds("slow"), _get_profile_thresholds("medium")}
    \cup {v \in ThreadCustomVecs :
            _validate_custom_thresholds(v.short_max_ms, v.long_min_ms,
                v.long_max_ms, v.symbol_gap_max_ms, v.word_gap_min_ms)}

\* Thread t has returned from a get_thresholds() call.
GotThresholds(t) == th[t].pc = "done" /\ th[t].op = "get_thresholds"

\* C23: under any interleaving of set_profile, set_custom_profile,
\* clear_custom_profile and get_thresholds calls from several threads every
\* get_thresholds() result is the five values of one profile, slow, medium or
\* one accepted custom vector, never a mixture; and no call raises.
C23_NoTornThresholds ==
    \A t \in Threads :
        /\ ~th[t].raised
        /\ GotThresholds(t) => th[t].ret[1] \in SingleProfileThresholds

\* A thread holds the thresholds of a custom vector it read while custom was
\* active; another thread is inside set_profile, between its two writes.
C23_Witness ==
    \E t1, t2 \in Threads :
        /\ GotThresholds(t1)
        /\ th[t1].ret[1] \in ThreadCustomVecs
        /\ th[t2].pc = "sp_thresholds"
        /\ active_profile # "custom"
        /\ current_thresholds = th[t1].ret[1]

\* C24: when several threads alternate set_profile("slow") and
\* set_profile("medium") on one manager, the get_thresholds() call a thread
\* makes right after its own set_profile(P) returns P's thresholds.
C24_OwnProfileReadBack ==
    \A t \in Threads :
        (GotThresholds(t) /\ th[t].prev # None /\ th[t].prev[1] \in {"slow", "medium"})
        => th[t].ret[1] = _get_profile_thresholds(th[t].prev[1])

-----------------------------------------------------------------------------
(* What callers can do with returned values, checked under SpecAlias *)

HoldsThresholds == held # None /\ held[1].kind = "thresholds"

StoreOps ==
    {"set_profile", "set_custom_profile", "clear_custom_profile",
     "reset_to_default"}

\* C25: get_thresholds() returns an owned snapshot: assigning to the returned
\* mapping changes nothing of the manager, so later get_thresholds() calls
\* return what they would have, and a later set_profile, set_custom_profile,
\* clear_custom_profile or reset_to_default leaves a snapshot already handed
\* out as it is.
C25_OwnedSnapshot ==
    [][ /\ (HoldsThresholds /\ last'.op = "mutate")
           => (UNCHANGED calVars /\ get_thresholds' = get_thresholds)
        /\ (HoldsThresholds /\ last'.op \in StoreOps)
           => (held' # None /\ held'[1].value = held[1].value)
      ]_vars

\* The caller has written 5 into its snapshot; the manager's thresholds are
\* not the snapshot's.
C25_Witness ==
    /\ last.op = "mutate"
    /\ HoldsThresholds
    /\ held[1].value.short_max_ms = 5
    /\ get_thresholds.short_max_ms # 5

\* A set_profile that changed the thresholds while a snapshot of the old ones
\* is held.
C25_WitnessSetProfile ==
    /\ last.op = "set_profile"
    /\ last.ret = TRUE
    /\ HoldsThresholds
    /\ held[1].value # get_thresholds
    /\ held[1].value = _get_profile_thresholds("medium")

\* C26: no value returned by a read operation (get_thresholds,
\* get_profile_info, get_available_profiles, get_stats, get_custom_profile)
\* lets a caller change the manager: after the caller assigns to a returned
\* value the manager reports the same custom profile, and the thresholds a
\* later set_profile("custom") applies are validated ones.
C26_NoReadLetsCallerMutate ==
    [][ last'.op = "mutate"
        => /\ custom_profile' = custom_profile
           /\ custom_profile' # None
              => LET t == set_profile(TheManager', "custom").m.current
                 IN  _validate_custom_thresholds(t.short_max_ms, t.long_min_ms,
                         t.long_max_ms, t.symbol_gap_max_ms, t.word_gap_min_ms)
      ]_vars

-----------------------------------------------------------------------------
(* The module-level manager, checked under SpecSingleton *)

\* A get_calibration_manager() call that has returned and during which no
\* reset took effect.
GotManager(t) ==
    /\ th[t].pc = "done"
    /\ th[t].op = "get_calibration_manager"
    /\ th[t].epoch >= 0

\* C29: get_calibration_manager() is a singleton: calls with no
\* reset_calibration_manager() in between return the same instance, never
\* None, and one instance at most is constructed between resets, however the
\* threads' first calls interleave; holding the same instance, the callers
\* see the same profile.
C29_Singleton ==
    /\ instances <= resets + 1
    /\ \A t1, t2 \in Threads :
          (GotManager(t1) /\ GotManager(t2) /\ th[t1].epoch = th[t2].epoch)
          => (th[t1].ret # None /\ th[t1].ret = th[t2].ret)

\* Two threads made the first call together: one has returned the instance
\* it constructed, the other saw None outside the lock and now holds the lock
\* before the second test.
C29_Witness ==
    \E t1, t2 \in Threads :
        /\ GotManager(t1)
        /\ th[t1].ret = Some(1)
        /\ th[t2].pc = "gcm_check2"
        /\ th[t2].epoch = th[t1].epoch
        /\ resets = 0

\* Both threads have returned from first calls that overlapped.
C29_WitnessBoth ==
    /\ \A t \in Threads : GotManager(t) /\ th[t].ret = Some(1)
    /\ resets = 0
    /\ instances = 1

-----------------------------------------------------------------------------
(* Silence windows and rejected blinks, checked under Spec *)

\* The step is a sample that appends a gap event of type gap_type.
EmitsGap(gap_type) ==
    /\ IsSample
    /\ Len(gap_events') = Len(gap_events) + 1
    /\ gap_events'[Len(gap_events')].gap_type = gap_type

\* C32: once a gap event has been emitted for a silence window no further gap
\* event, so no WordGap, is emitted until a BlinkEvent opens a new window; a
\* WordGap is emitted only by a sample that finds the classifier Idle with the
\* window open and is at least word_gap_min_ms after last_event_time, and
\* every such sample that is at least symbol_gap_max_ms after last_event_time
\* emits a gap event and closes the window, so the first one decides; in a
\* silence after a BlinkEvent whose samples arrive less than
\* word_gap_min_ms - symbol_gap_max_ms apart the gap event emitted is a
\* SymbolGap.
C32_SymbolGapClosesWindow ==
    [][ /\ (IsSample /\ gap_fired /\ last'.ret = <<>>)
           => gap_events' = gap_events
        /\ EmitsGap("word_gap")
           => /\ IsIdleSample
              /\ ~gap_fired
              /\ WindowOpenAt(state.last_event_time, gap_events)
              /\ DurationMs(last'.arg.timestamp, state.last_event_time[1])
                   >= current_thresholds.word_gap_min_ms
        /\ (IsIdleSample /\ WindowOpenAt(state.last_event_time, gap_events)
              /\ DurationMs(last'.arg.timestamp, state.last_event_time[1])
                   >= current_thresholds.symbol_gap_max_ms)
           => /\ Len(gap_events') = Len(gap_events) + 1
              /\ ~WindowOpenAt(state'.last_event_time, gap_events')
        /\ (IsSample /\ idle_run') => ~EmitsGap("word_gap")
        /\ (IsSample /\ idle_run' /\ gap_fired')
           => gap_events'[Len(gap_events')].gap_type = "symbol_gap"
      ]_vars

\* A silence after a BlinkEvent, sampled closely, that has lasted
\* word_gap_min_ms or more: one SymbolGap was emitted and nothing after it.
C32_Witness ==
    /\ last.op = "process_ear_sample"
    /\ idle_run
    /\ gap_fired
    /\ events # <<>>
    /\ DurationMs(now, events[Len(events)].timestamp)
         >= current_thresholds.word_gap_min_ms
    /\ gap_events[Len(gap_events)].gap_type = "symbol_gap"
    /\ gap_events[Len(gap_events)].timestamp < now
    /\ gap_events[Len(gap_events)].timestamp > events[Len(events)].timestamp

\* A WordGap emitted by the first sample after the BlinkEvent.
C32_WitnessWordGap ==
    /\ last.op = "process_ear_sample"
    /\ ~last.was_blinking
    /\ gap_events # <<>>
    /\ gap_events[Len(gap_events)].gap_type = "word_gap"
    /\ gap_events[Len(gap_events)].timestamp = last.arg.timestamp
    /\ events # <<>>
    /\ gap_events[Len(gap_events)].duration_ms
         = DurationMs(now, events[Len(events)].timestamp)

\* The timestamp of the latest entry of the two histories.
LatestEntryTime(evs, gaps) ==
    LET e == IF evs = <<>> THEN -1 ELSE evs[Len(evs)].timestamp
        g == IF gaps = <<>> THEN -1 ELSE gaps[Len(gaps)].timestamp
    IN  IF e >= g THEN e ELSE g

C33_WitnessBetween ==
    /\ last.op = "process_ear_sample"
    /\ last.was_blinking
    /\ last.arg.ear_value >= ear_threshold
    /\ last.ret = <<>>
    /\ DurationMs(now, 0) < current_thresholds.long_min_ms

-----------------------------------------------------------------------------
(* The custom profile and the profile invariant of the CalibrationManager *)

\* C35: a successful set_custom_profile(v) replaces the stored custom profile
\* by one holding v and leaves the active profile as it is; the thresholds
\* get_thresholds() returns become v within the call if "custom" is the
\* active profile, and they change in no other case.
C35_SetCustomProfileEffect ==
    [][ (last'.op = "set_custom_profile" /\ last'.ret = TRUE)
        => LET v == last'.arg
           IN  /\ custom_profile'
                    = Some(CalibrationProfile("custom", v.short_max_ms,
                               v.long_min_ms, v.long_max_ms, v.symbol_gap_max_ms,
                               v.word_gap_min_ms, "Custom calibration profile",
                               TRUE))
               /\ active_profile' = active_profile
               /\ active_profile = "custom" => get_thresholds' = v
               /\ get_thresholds' # get_thresholds
                    <=> (active_profile = "custom" /\ v # get_thresholds)
      ]_vars

\* The custom profile replaced by other values while it is the active one:
\* the thresholds are the new values.
C35_Witness ==
    /\ last.op = "set_custom_profile"
    /\ last.ret = TRUE
    /\ last.was_active = "custom"
    /\ active_profile = "custom"
    /\ get_thresholds = last.arg
    /\ get_thresholds = Vec(2000, 3000, 5000, 2000, 5000)

\* A custom profile stored while slow is active: slow's thresholds stay.
C35_WitnessInactive ==
    /\ last.op = "set_custom_profile"
    /\ last.ret = TRUE
    /\ active_profile = "slow"
    /\ custom_profile # None
    /\ get_thresholds = SlowVec

\* C40: is_valid_profile(name) is true exactly when set_profile(name) would
\* succeed on the manager as it is, so POST /api/calibration/set answers 400
\* to every name set_profile would refuse, "custom" before a custom profile
\* has been set included, answers 200 to every other, and leaves the manager
\* untouched when it refuses.
C40_IsValidIffSetProfileSucceeds ==
    [][ last'.op = "set_calibration_profile"
        => LET ok == set_profile(TheManager, last'.arg).ret
           IN  /\ is_valid_profile(last'.arg) <=> ok
               /\ last'.ret = IF ok THEN 200 ELSE 400
               /\ ~ok => UNCHANGED calVars
      ]_vars

\* The relation between the three fields of a manager.
ProfileInvariant(active, custom, current) ==
    /\ active \in {"slow", "medium", "custom"}
    /\ active = "custom" => custom # None
    /\ current = IF active = "custom" THEN ThresholdsOf(custom[1])
                 ELSE _get_profile_thresholds(active)

\* A get_stats() call of thread t that has returned.
GotStats(t) == th[t].pc = "done" /\ th[t].op = "get_stats"

\* C34: whenever no call holds the manager's lock, the calls of several
\* threads included, the active profile is one of "slow", "medium", "custom",
\* an active "custom" has a custom profile, and the current thresholds are
\* the five values of the active profile; get_stats() reports an
\* active_profile and current_thresholds in that relation; a manager
\* constructed with an unknown default profile starts as "medium".
C34_ProfileInvariant ==
    /\ lock.owner = None
       => ProfileInvariant(active_profile, custom_profile, current_thresholds)
    /\ \A t \in Threads :
          GotStats(t)
          => LET stats == th[t].ret[1]
             IN  /\ stats.active_profile \in {"slow", "medium", "custom"}
                 /\ stats.active_profile = "custom"
                    => /\ stats.has_custom_profile
                       /\ stats.available_profiles = <<"slow", "medium", "custom">>
                       /\ stats.current_thresholds \in ThreadCustomVecs
                 /\ stats.active_profile # "custom"
                    => stats.current_thresholds
                         = _get_profile_thresholds(stats.active_profile)
    /\ (last.arg \notin DOMAIN CALIBRATION_PROFILES
          /\ \A t \in Threads : th[t].pc = "idle")
       => /\ active_profile = "medium"
          /\ current_thresholds = MediumVec

\* One thread's get_stats() reported the active custom profile; another
\* thread has since cleared it, and the manager is back on medium.
C34_Witness ==
    \E t1, t2 \in Threads :
        /\ GotStats(t1)
        /\ th[t1].ret[1].active_profile = "custom"
        /\ th[t2].pc = "done"
        /\ th[t2].op = "clear_custom_profile"
        /\ lock.owner = None
        /\ active_profile = "medium"
        /\ custom_profile = None
        /\ last.arg = "fast"

-----------------------------------------------------------------------------
(* Invariants of the SequenceEngine, checked under SpecSeq *)

\* C36: with the vocabulary fixed and its words non-empty, in every state
\* reached sequence_complete implies that the symbol list is not empty and
\* that last_word is the word finalize_sequence yields for the current symbol
\* list; while sequence_complete is true the symbol list changes only through
\* clear_sequence.
C36_CompleteMeansMatched ==
    [][ /\ sequence_complete'
           => /\ current_sequence' # <<>>
              /\ finalize_sequence(TheEngine').ret = Some(last_word')
              /\ last_word' # ""
        /\ (sequence_complete /\ current_sequence' # current_sequence)
           => (IsEngineClear /\ current_sequence' = <<>>)
        /\ vocab' = vocab
      ]_vars

\* A complete sequence shorter than max_sequence_length to which a valid
\* symbol has just been offered: the list and the word are as they were.
C36_Witness ==
    /\ last.op = "add_blink"
    /\ last.arg[1] \in {"S", "L"}
    /\ sequence_complete
    /\ Len(current_sequence) < max_sequence_length
    /\ finalize_sequence(TheEngine).ret = Some(last_word)
    /\ last.arg[1] # current_sequence[Len(current_sequence)]

\* C37: when the symbol list holds max_sequence_length symbols and is not
\* complete, its auto-finalize having found no match, finalize_sequence finds
\* no word for it, every add_blink drops its symbol, and the symbol list,
\* sequence_complete and last_word change only through clear_sequence(); the
\* overflow branch of add_blink runs only in such a state, so it never
\* produces a word.
C37_StuckAtMaxLength ==
    [][ (~sequence_complete /\ Len(current_sequence) >= max_sequence_length)
        => /\ Len(current_sequence) = max_sequence_length
           /\ finalize_sequence(TheEngine).ret = None
           /\ IsFinalize => last'.ret = None
           /\ IsEngineClear \/ UNCHANGED seqVars
      ]_vars

\* A valid symbol dropped by a full sequence that has no match, after a word
\* had been recognised earlier.
C37_Witness ==
    /\ last.op = "add_blink"
    /\ last.arg[1] \in {"S", "L"}
    /\ ~sequence_complete
    /\ Len(current_sequence) = max_sequence_length
    /\ last.arg[1] # current_sequence[max_sequence_length]
    /\ last_word # ""
    /\ finalize_sequence(TheEngine).ret = None

-----------------------------------------------------------------------------
\* What get() handed to thread t.
GotFrame(t) == th[t].op = "get" /\ th[t].pc = "done"

\* A frame and a metadata dict that come from the same set() call.
SameCall(frame, meta) ==
    /\ {"thread_id", "frame_num"} \subseteq DOMAIN meta
    /\ frame = Some(FrameBytes(meta.thread_id, meta.frame_num))

\* C31: right after a set() whose caller metadata has no 'version' key, the
\* stored metadata's 'version' equals get_version(); and whatever get()
\* returns is a frame with the metadata of the same set() call (or the empty
\* buffer), under every interleaving of the threads' set() calls.
C31_VersionMatchesAndPaired ==
    /\ (last.op = "set" /\ "version" \notin DOMAIN last.arg[1].meta)
          => /\ _frame # None
             /\ _meta.version = _version
    /\ \A t \in Threads :
          GotFrame(t) =>
             LET r == th[t].ret[1]
             IN  IF r.frame = None THEN DOMAIN r.meta = {}
                 ELSE SameCall(r.frame, r.meta)

-----------------------------------------------------------------------------
\* The responses of the two sample handlers that processed a sample.
SampleResponse(c) ==
    /\ c.op \in {"process_ear", "process_frame"}
    /\ "word_gap_detected" \in DOMAIN c.ret

\* C38: a sample handler reports word_gap_detected, and calls
\* finalize_sequence(), only for a sample during which the classifier emitted
\* a new word gap.
C38_FinalizeOnlyOnNewWordGap ==
    [][SampleResponse(last')
          => ((last'.ret.word_gap_detected \/ last'.ret.finalized)
                => \E i \in DOMAIN last'.ret.new_gaps :
                      last'.ret.new_gaps[i].gap_type = "word_gap")]_vars

\* C39: the handlers share one session: GET /api/translation returns, once,
\* the word that frame processing completed, and POST /api/translation/reset
\* clears the sequence and the classifier that frame processing uses.
C39_OneSharedSession ==
    [][/\ (last'.op = "get_translation" /\ frame_engine.sequence_complete)
             => /\ last'.ret.output = frame_engine.last_word
                /\ ~frame_engine'.sequence_complete
       /\ last'.op = "reset_sequence"
             => /\ frame_engine'.current_sequence = <<>>
                /\ ~frame_engine'.sequence_complete
                /\ frame_classifier' =
                      [state |-> BlinkState, events |-> <<>>,
                       gap_events |-> <<>>]]_vars

====
